---- MODULE Spec2Model ----
(***************************************************************************)
(* A model of the PostgreSQL data importer (src/src/data_importer.ts):     *)
(* the foreign-key dependency sort and the sequential validate-and-import  *)
(* loop of main(); and of the MySQL exporter (src/unnamed/part_001): the   *)
(* pool of concurrent table exports and the export of one table.           *)
(*                                                                         *)
(* The libraries are taken by their use in the source: getCsvHeaders       *)
(* resolves with the header row of the CSV file (no header for a file      *)
(* without lines) or rejects with the parser's error; the files of the     *)
(* export directory do not change while the importer runs.                 *)
(***************************************************************************)
EXTENDS Integers, Sequences, FiniteSets, TLC

(***************************************************************************)
(* Bounds of the model.                                                    *)
(***************************************************************************)
\* longest list of foreign-key rows the catalog query returns
MaxEdges == 3
\* longest table list handed to topologicalSort by the sort harness
MaxList == 3

\* table names of the destination schema
Tables == {"a", "b", "c"}

\* tables that may have an artifact in the export directory of a run
ImportTables == {"a", "b"}

\* longest list of foreign-key rows the catalog query returns in a run
RunMaxEdges == 2

\* most rows of the artifact handed to importData by the loader harness
MaxRows == 2500

\* longest string among the values handed to the serialization harness, the
\* JSON texts of ObjectValues apart
MaxChars == 4

\* longest column list handed to the reconciliation harness
MaxColumns == 3

\* column names of the reconciliation harness, two of them differing in case only
ColumnNames == {"id", "Name", "name"}

\* rows per insert statement (const BATCH_SIZE of importData)
BATCH_SIZE == 1000

VARIABLES
  sortTables,    \* harness: the `tables` argument of topologicalSort
  sortRows,      \* harness: the rows of the foreign-key catalog query
  sortCalled,    \* harness: whether topologicalSort has been called
  sortResult,    \* harness: what topologicalSort gave
  callArgs,      \* harness: the arguments a function is applied to
  callDone,      \* harness: whether the function has been applied
  callResult,    \* harness: what the function gave
  pc,            \* where main() stands: the await it is suspended at
  fileType,      \* options.type, "json" or "csv"
  tables,        \* main: the table names of the artifacts found
  edges,         \* the foreign-key edges the catalog query returned, as a relation
  sortedTables,  \* main: the order topologicalSort returned
  idx,           \* validateAndImportSchemas: position of the for-loop in the order
  cur,           \* validateAndImportSchemas / importData: locals of the iteration
  tstate,        \* the state of each table in the orchestrator's state machine
  inserts,       \* the insert statements issued so far, in issue order
  inflight,      \* insert statements issued and not yet completed
  destination,   \* the rows each PostgreSQL table holds, as ranges of artifact rows
  error,         \* the error that ended the run: [kind, table]
  exitCode,      \* the code given to process.exit, -1 while the process runs
  handler,       \* the SIGINT handler: where it stands, and at which await of main
                 \* the signal arrived (an insert statement in flight, or another)
  pgClients,     \* clients checked out of pgPool and not released
  mysqlConns,    \* connections checked out of mysqlPool and not released
  ignoreEnv,     \* additionalIgnoreTables: the entries of process.env.IGNORE_TABLES
  exPc,          \* where exportDatabaseTables stands
  exTables,      \* exporter: the table names the INFORMATION_SCHEMA query returned
  index,         \* processTablesWithConcurrencyLimit: tables taken from the list
  activeCount,   \* processTablesWithConcurrencyLimit: exports started and not settled
  queue,         \* processTablesWithConcurrencyLimit: the promises pushed, by table
  exportState,   \* exporter: what became of each table
  allCalls,      \* processTablesWithConcurrencyLimit: calls of Promise.all(queue)
  resolved,      \* processTablesWithConcurrencyLimit: its promise is resolved
  xt,            \* exportTableData: the locals of one call
  csvFile,       \* exportTableData: the file <table>.csv
  jsonFile       \* exportTableData: the file <table>.json

sortVars == <<sortTables, sortRows, sortCalled, sortResult>>
callVars == <<callArgs, callDone, callResult>>
exportVars == <<ignoreEnv, exPc, exTables, index, activeCount, queue, exportState, allCalls,
               resolved, xt, csvFile, jsonFile>>
harnessVars == <<sortTables, sortRows, sortCalled, sortResult, callArgs, callDone, callResult,
                ignoreEnv, exPc, exTables, index, activeCount, queue, exportState, allCalls,
                resolved, xt, csvFile, jsonFile>>
runVars == <<pc, fileType, tables, edges, sortedTables, idx, cur, tstate, inserts,
             inflight, destination, error, exitCode, handler, pgClients, mysqlConns>>
vars == <<sortTables, sortRows, sortCalled, sortResult, callArgs, callDone, callResult,
          pc, fileType, tables, edges, sortedTables, idx, cur, tstate, inserts,
          inflight, destination, error, exitCode, handler, pgClients, mysqlConns,
          ignoreEnv, exPc, exTables, index, activeCount, queue, exportState, allCalls,
          resolved, xt, csvFile, jsonFile>>

(***************************************************************************)
(* Sequences and insertion-ordered sets (a JavaScript Set iterates in      *)
(* insertion order, so it is modelled as a sequence without repetition).   *)
(***************************************************************************)
Range(s) == {s[i] : i \in 1..Len(s)}

SeqsUpTo(S, n) == UNION {[1..k -> S] : k \in 0..n}

includes(s, x) == \E i \in 1..Len(s) : s[i] = x

SetAdd(s, x) == IF includes(s, x) THEN s ELSE Append(s, x)

\* Map.get(key) || new Set()
MapGetOrEmpty(m, k) == IF k \in DOMAIN m THEN m[k] ELSE <<>>

EmptyMap == [k \in {} |-> <<>>]

(***************************************************************************)
(* getForeignKeyDependencies: the rows of the catalog query folded into    *)
(* a Map from a table to the Set of tables it references.                  *)
(***************************************************************************)
FkRows == [table_name : Tables, foreign_table_name : Tables]

\* a map whose values are arrays: every row adds its reference
AddDependencyArray(m, row) ==
  [k \in DOMAIN m \cup {row.table_name} |->
     IF k = row.table_name
       THEN Append(MapGetOrEmpty(m, k), row.foreign_table_name)
       ELSE m[k]]

AddDependency(m, row) ==
  [k \in DOMAIN m \cup {row.table_name} |->
     IF k = row.table_name
       THEN SetAdd(MapGetOrEmpty(m, k), row.foreign_table_name)
       ELSE m[k]]

RECURSIVE DependenciesFrom(_, _, _)
DependenciesFrom(rows, i, m) ==
  IF i > Len(rows) THEN m
  ELSE DependenciesFrom(rows, i + 1, AddDependency(m, rows[i]))

getForeignKeyDependencies(rows) == DependenciesFrom(rows, 1, EmptyMap)

(***************************************************************************)
(* topologicalSort: depth-first post-order with the sets visited and       *)
(* visiting.  A throw is the field `error` (the table named in the         *)
(* message); once set, every enclosing forEach and visit is unwound.       *)
(***************************************************************************)
NoError == ""

SortStart == [sorted |-> <<>>, visited |-> {}, visiting |-> {}, error |-> NoError]

RECURSIVE visit(_, _, _)
RECURSIVE forEachVisit(_, _, _, _)

\* deps.forEach((dep) => visit(dep)) and tables.forEach((table) => visit(table))
forEachVisit(st, list, i, dependencies) ==
  IF i > Len(list) \/ st.error # NoError THEN st
  ELSE forEachVisit(visit(st, list[i], dependencies), list, i + 1, dependencies)

\* the tail of visit, after the dependencies have been visited
finishVisit(st, table) ==
  [st EXCEPT !.visiting = @ \ {table},
             !.visited = @ \cup {table},
             !.sorted = Append(@, table)]

\* a visit that emits the table before its dependencies
visitPreOrder(st, table, dependencies) ==
  IF table \in st.visited THEN st
  ELSE IF table \in st.visiting THEN [st EXCEPT !.error = table]
  ELSE LET entered == [st EXCEPT !.visiting = @ \cup {table},
                                 !.sorted = Append(@, table)]
           after == forEachVisit(entered, MapGetOrEmpty(dependencies, table), 1,
                                 dependencies)
       IN IF after.error # NoError THEN after
          ELSE [after EXCEPT !.visiting = @ \ {table}, !.visited = @ \cup {table}]

\* a visit that returns silently from a table in progress
visitNoCycleCheck(st, table, dependencies) ==
  IF table \in st.visited \/ table \in st.visiting THEN st
  ELSE LET entered == [st EXCEPT !.visiting = @ \cup {table}]
           after == forEachVisit(entered, MapGetOrEmpty(dependencies, table), 1,
                                 dependencies)
       IN finishVisit(after, table)

\* a visit that does not look a table up in visited
visitAgain(st, table, dependencies) ==
  IF table \in st.visiting THEN [st EXCEPT !.error = table]
  ELSE LET entered == [st EXCEPT !.visiting = @ \cup {table}]
           after == forEachVisit(entered, MapGetOrEmpty(dependencies, table), 1,
                                 dependencies)
       IN IF after.error # NoError THEN after
          ELSE finishVisit(after, table)

visit(st, table, dependencies) ==
  IF table \in st.visited THEN st
  ELSE IF table \in st.visiting THEN [st EXCEPT !.error = table]
  ELSE LET entered == [st EXCEPT !.visiting = @ \cup {table}]
           after == forEachVisit(entered, MapGetOrEmpty(dependencies, table), 1,
                                 dependencies)
       IN IF after.error # NoError THEN after
          ELSE finishVisit(after, table)

NoResult == [threw |-> FALSE, error |-> NoError, sorted |-> <<>>]

RECURSIVE Reverse(_)
Reverse(s) == IF s = <<>> THEN <<>> ELSE Append(Reverse(Tail(s)), Head(s))

\* a sort that walks the table list from its end
topologicalSortReversed(tableList, dependencies) ==
  LET end == forEachVisit(SortStart, Reverse(tableList), 1, dependencies)
  IN IF end.error # NoError
       THEN [threw |-> TRUE, error |-> end.error, sorted |-> <<>>]
       ELSE [threw |-> FALSE, error |-> NoError, sorted |-> end.sorted]


\* a sort that returns only the tables of its list
topologicalSortListed(tableList, dependencies) ==
  LET end == forEachVisit(SortStart, tableList, 1, dependencies)
  IN IF end.error # NoError
       THEN [threw |-> TRUE, error |-> end.error, sorted |-> <<>>]
       ELSE [threw |-> FALSE, error |-> NoError,
             sorted |-> SelectSeq(end.sorted, LAMBDA t : includes(tableList, t))]

\* the result: the order, or the throw (no order is returned then)
topologicalSort(tableList, dependencies) ==
  LET end == forEachVisit(SortStart, tableList, 1, dependencies)
  IN IF end.error # NoError
       THEN [threw |-> TRUE, error |-> end.error, sorted |-> <<>>]
       ELSE [threw |-> FALSE, error |-> NoError, sorted |-> end.sorted]

(***************************************************************************)
(* The dependency graph as a relation, and its paths, stated without the   *)
(* sort: what the claims about the order are measured against.             *)
(***************************************************************************)
EdgesOfRows(rows) == {<<rows[i].table_name, rows[i].foreign_table_name>> : i \in 1..Len(rows)}

RECURSIVE PathWithin(_, _, _, _)
\* a path of at least one edge from x to y, through at most n edges
PathWithin(E, x, y, n) ==
  IF n = 0 THEN FALSE
  ELSE \/ <<x, y>> \in E
       \/ \E z \in Tables : <<x, z>> \in E /\ PathWithin(E, z, y, n - 1)

Path(E, x, y) == PathWithin(E, x, y, Cardinality(Tables))

OnCycle(E, x) == Path(E, x, x)

ReachableFrom(E, list) == Range(list) \cup {y \in Tables : \E x \in Range(list) : Path(E, x, y)}

CycleReachable(E, list) == \E x \in ReachableFrom(E, list) : OnCycle(E, x)

\* every table of the order stands after each table it depends on
RespectsEdges(order, E) ==
  \A e \in E : e[1] \in Range(order) =>
     /\ e[2] \in Range(order)
     /\ \A i, j \in 1..Len(order) : (order[i] = e[1] /\ order[j] = e[2]) => j < i

(***************************************************************************)
(* The artifacts and the catalogs a run reads.  A file is known to the     *)
(* orchestrator by fs.existsSync and isFileEmpty (its stat), and by what   *)
(* parsing it gives (its content), read once the schema query returned.    *)
(***************************************************************************)
validTypes == {"json", "csv"}

FileStats == {"missing", "zero", "nonzero"}

existsSync(stat) == stat # "missing"

isFileEmpty(stat) == stat = "zero"

\* column lists of the destination catalog (an unknown table has none)
PgColLists == {<<>>, <<"id">>, <<"id", "Name">>}

\* column lists found in artifacts: keys of the first JSON element, CSV header
ExportedColLists == {<<>>, <<"id">>, <<"Name", "id">>, <<"id", "name">>}

\* numbers of rows of an artifact
FileRows == {0, 1, BATCH_SIZE + 1}

\* results of SELECT COUNT(*) on the MySQL table
MysqlCounts == {0, 5}

Unread == [kind |-> "unread", cols |-> <<>>, rows |-> 0, blank |-> FALSE]

\* a zero-byte file
EmptyText == [kind |-> "empty", cols |-> <<>>, rows |-> 0, blank |-> FALSE]

\* text that the parser rejects
Malformed == [kind |-> "malformed", cols |-> <<>>, rows |-> 0, blank |-> FALSE]

\* a JSON array of `rows` objects whose first element has the keys `cols`
\* (`[]` has no first element); a CSV header `cols` followed by `rows` records,
\* `blank` when an empty line stands among them
JsonContents ==
  {Malformed, [kind |-> "data", cols |-> <<>>, rows |-> 0, blank |-> FALSE]}
  \cup {[kind |-> "data", cols |-> c, rows |-> n, blank |-> FALSE] :
          c \in ExportedColLists, n \in FileRows \ {0}}

CsvContents ==
  {Malformed}
  \cup {[kind |-> "data", cols |-> c, rows |-> n, blank |-> FALSE] :
          c \in ExportedColLists \ {<<>>}, n \in FileRows}
  \cup {[kind |-> "data", cols |-> c, rows |-> n, blank |-> TRUE] :
          c \in ExportedColLists \ {<<>>}, n \in FileRows \ {0}}

ContentsOf(type, stat) ==
  IF stat = "zero" THEN {EmptyText}
  ELSE IF type = "json" THEN JsonContents ELSE CsvContents

\* JSON.parse(data) returns (TRUE) or throws a SyntaxError (FALSE)
JsonParses(content) == content.kind = "data"

\* Object.keys(jsonData[0] || [])
JsonKeys(content) == content.cols

\* getCsvHeaders: the parser (skip_empty_lines) rejects malformed text and
\* reports no header for a file without lines
CsvHeadersReject(content) == content.kind = "malformed"

CsvHeaders(content) == content.cols

\* importData's parser (no skip_empty_lines) also rejects an empty line
CsvReadRejects(content) == content.kind # "data" \/ content.blank

(***************************************************************************)
(* Column reconciliation (case-sensitive Array.includes).                  *)
(***************************************************************************)
missingInPg(exportedColumns, pgColumns) ==
  SelectSeq(exportedColumns, LAMBDA col : ~includes(pgColumns, col))

\* the pgColumns.filter of a reconciliation that takes the arguments in the
\* order of missingInPg
extraInPgSwapped(exportedColumns, pgColumns) ==
  SelectSeq(exportedColumns, LAMBDA col : ~includes(pgColumns, col))

extraInPg(exportedColumns, pgColumns) ==
  SelectSeq(pgColumns, LAMBDA col : ~includes(exportedColumns, col))

\* the two differences validateAndImportSchemas computes
columnDifferences(exportedColumns, pgColumns) ==
  [missingInPg |-> missingInPg(exportedColumns, pgColumns),
   extraInPg |-> extraInPg(exportedColumns, pgColumns)]

(***************************************************************************)
(* The values of a row and their serialization into the VALUES list of an  *)
(* insert statement.  A string is the sequence of its characters.  A value *)
(* is undefined (the row has no such key), null, a number, a boolean, a    *)
(* string or an object whose members are numbers and strings.              *)
(***************************************************************************)
Undefined == [type |-> "undefined", num |-> 0, str |-> <<>>, members |-> <<>>]

Null == [type |-> "null", num |-> 0, str |-> <<>>, members |-> <<>>]

Num(n) == [type |-> "number", num |-> n, str |-> <<>>, members |-> <<>>]

Bool(b) == [type |-> "boolean", num |-> IF b THEN 1 ELSE 0, str |-> <<>>, members |-> <<>>]

Str(chars) == [type |-> "string", num |-> 0, str |-> chars, members |-> <<>>]

Obj(members) == [type |-> "object", num |-> 0, str |-> <<>>, members |-> members]

Member(key, value) == [key |-> key, value |-> value]

Digits == <<"0", "1", "2", "3", "4", "5", "6", "7", "8", "9">>

RECURSIVE NumberToString(_)
\* Number.prototype.toString of a natural number
NumberToString(n) ==
  IF n < 10 THEN <<Digits[n + 1]>>
  ELSE NumberToString(n \div 10) \o <<Digits[(n % 10) + 1]>>

\* value.toString() of a number, a boolean or a string
toString(value) ==
  CASE value.type = "number" -> NumberToString(value.num)
    [] value.type = "boolean" ->
         IF value.num = 1 THEN <<"t", "r", "u", "e">> ELSE <<"f", "a", "l", "s", "e">>
    [] OTHER -> value.str

RECURSIVE JoinWith(_, _)
\* Array.prototype.join
JoinWith(parts, separator) ==
  IF Len(parts) = 0 THEN <<>>
  ELSE IF Len(parts) = 1 THEN parts[1]
  ELSE parts[1] \o separator \o JoinWith(Tail(parts), separator)

\* JSON.stringify of a number or of a string that needs no escape, and of an
\* object of such members
JSONstringify(value) ==
  LET scalar(v) == IF v.type = "string" THEN <<"\"">> \o v.str \o <<"\"">> ELSE toString(v)
      member(m) == <<"\"">> \o m.key \o <<"\"", ":">> \o scalar(m.value)
  IN IF value.type = "object"
       THEN <<"{">> \o JoinWith([k \in 1..Len(value.members) |-> member(value.members[k])],
                                 <<",">>) \o <<"}">>
       ELSE scalar(value)

RECURSIVE SkipSpace(_, _)
\* the first position from i on that holds no white space
SkipSpace(s, i) == IF i <= Len(s) /\ s[i] = " " THEN SkipSpace(s, i + 1) ELSE i

\* String.prototype.trim
trim(s) ==
  LET first == SkipSpace(s, 1)
      last == CHOOSE j \in 0..Len(s) :
                /\ j = 0 \/ s[j] # " "
                /\ \A k \in (j + 1)..Len(s) : s[k] = " "
  IN IF first > Len(s) THEN <<>> ELSE SubSeq(s, first, last)

startsWith(s, ch) == Len(s) > 0 /\ s[1] = ch

endsWith(s, ch) == Len(s) > 0 /\ s[Len(s)] = ch

RECURSIVE ScanString(_, _)
\* the position after the closing quote of the JSON string whose opening quote
\* stands before i, 0 when there is none
ScanString(s, i) ==
  IF i > Len(s) \/ s[i] = "\\" THEN 0
  ELSE IF s[i] = "\"" THEN i + 1
  ELSE ScanString(s, i + 1)

RECURSIVE ScanDigits(_, _)
ScanDigits(s, i) == IF i <= Len(s) /\ s[i] \in Range(Digits) THEN ScanDigits(s, i + 1) ELSE i

\* the position after the JSON number at i, 0 when there is none
ScanNumber(s, i) ==
  IF i > Len(s) \/ s[i] \notin Range(Digits) THEN 0
  ELSE IF s[i] = "0" THEN i + 1
  ELSE ScanDigits(s, i + 1)

RECURSIVE ScanValue(_, _)
RECURSIVE ScanMembers(_, _)
\* the position after the JSON value that starts at or after i, 0 when there
\* is none (objects, strings without escapes and natural numbers)
ScanValue(s, i0) ==
  LET i == SkipSpace(s, i0)
  IN IF i > Len(s) THEN 0
     ELSE IF s[i] = "{"
       THEN LET j == SkipSpace(s, i + 1)
            IN IF j <= Len(s) /\ s[j] = "}" THEN j + 1 ELSE ScanMembers(s, j)
     ELSE IF s[i] = "\"" THEN ScanString(s, i + 1)
     ELSE ScanNumber(s, i)

\* the position after the closing brace of the object whose next member starts at i
ScanMembers(s, i) ==
  IF i > Len(s) \/ s[i] # "\"" THEN 0
  ELSE LET k == ScanString(s, i + 1)
           c == IF k = 0 THEN 0 ELSE SkipSpace(s, k)
           v == IF c = 0 \/ c > Len(s) \/ s[c] # ":" THEN 0 ELSE ScanValue(s, c + 1)
           e == IF v = 0 THEN 0 ELSE SkipSpace(s, v)
       IN IF e = 0 \/ e > Len(s) THEN 0
          ELSE IF s[e] = "}" THEN e + 1
          ELSE IF s[e] = "," THEN ScanMembers(s, SkipSpace(s, e + 1))
          ELSE 0

\* JSON.parse(text) returns (TRUE) or throws a SyntaxError (FALSE)
JSONparses(text) ==
  LET e == ScanValue(text, 1)
  IN e # 0 /\ SkipSpace(text, e) = Len(text) + 1

RECURSIVE ReplaceFirstQuote(_)
\* value.replace("'", "''"): the first single quote only
ReplaceFirstQuote(s) ==
  IF Len(s) = 0 THEN <<>>
  ELSE IF Head(s) = "'" THEN <<"'", "'">> \o Tail(s)
  ELSE <<Head(s)>> \o ReplaceFirstQuote(Tail(s))

RECURSIVE ReplaceQuotes(_)
\* value.replace(/'/g, "''")
ReplaceQuotes(s) ==
  IF Len(s) = 0 THEN <<>>
  ELSE (IF Head(s) = "'" THEN <<"'", "'">> ELSE <<Head(s)>>) \o ReplaceQuotes(Tail(s))

Quoted(s) == <<"'">> \o s \o <<"'">>

NULL == <<"N", "U", "L", "L">>

\* the callback of columns.map: the literal of row[col]
serializeValue(value) ==
  IF value.type \in {"undefined", "null"} THEN NULL
  ELSE IF value.type = "object" THEN Quoted(JSONstringify(value))
  ELSE IF value.type = "string" /\ startsWith(trim(value.str), "{")
                               /\ endsWith(trim(value.str), "}")
    THEN IF JSONparses(value.str)
           THEN Quoted(value.str)
           ELSE Quoted(ReplaceQuotes(value.str))
  ELSE Quoted(ReplaceQuotes(toString(value)))

\* the callback of batch.map: the parenthesised literals of a row
serializeRow(row, columns) ==
  <<"(">> \o JoinWith([k \in 1..Len(columns) |-> serializeValue(row[columns[k]])],
                       <<",", " ">>) \o <<")">>

\* the characters of the strings handed to the serialization harness
Chars == {"{", "}", "'", "\"", ":", "1", "a", " "}

ObjectValues ==
  {Obj(<<>>),
   Obj(<<Member(<<"x">>, Num(1))>>),
   Obj(<<Member(<<"t">>, Str(<<"i", "t", "'", "s">>))>>),
   Obj(<<Member(<<"x">>, Num(10)), Member(<<"y">>, Str(<<"a">>))>>)}

OBrien == Str(<<"O", "'", "B", "r", "i", "e", "n">>)

\* strings: the short ones, a name with a quote, and the JSON texts of the
\* objects, bare and with white space around
StringValues ==
  {Str(chars) : chars \in SeqsUpTo(Chars, MaxChars)}
  \cup {OBrien}
  \cup {Str(JSONstringify(o)) : o \in ObjectValues}
  \cup {Str(<<" ">> \o JSONstringify(o) \o <<" ">>) : o \in ObjectValues}

Values ==
  {Undefined, Null, Num(0), Num(7), Num(120), Bool(TRUE), Bool(FALSE)}
  \cup ObjectValues \cup StringValues

\* the values of the rows of three columns
RowValues == {Undefined, Null, Num(7), Obj(<<Member(<<"x">>, Num(1))>>), OBrien}

(***************************************************************************)
(* The run: main(), validateAndImportSchemas() and importData(), one       *)
(* action per resumption after an await.                                   *)
(***************************************************************************)
TableStates == {"Pending", "Validating", "Importing", "Done", "Skipped", "Failed"}

NoCur == [table |-> "", inMysql |-> FALSE, rowCount |-> -1,
          json |-> "missing", csv |-> "missing", content |-> Unread,
          pgColumns |-> <<>>, exportedColumns |-> <<>>, i |-> 0]

NoRunError == [kind |-> "", table |-> ""]

\* no SIGINT has arrived
HandlerOff == [state |-> "off", at |-> ""]

\* table lists main builds from the files of the selected type (a Set: no name twice)
RunTableLists ==
  {l \in SeqsUpTo(ImportTables, Cardinality(ImportTables)) :
     \A i, j \in 1..Len(l) : i # j => l[i] # l[j]}

RunFkRowLists ==
  SeqsUpTo(FkRows, RunMaxEdges)

RunInit ==
  /\ pc = "start"
  /\ fileType \in validTypes
  /\ tables = <<>>
  /\ edges = {}
  /\ sortedTables = <<>>
  /\ idx = 1
  /\ cur = NoCur
  /\ tstate = [t \in Tables |-> "Pending"]
  /\ inserts = <<>>
  /\ inflight = 0
  /\ destination = [t \in Tables |-> {}]
  /\ error = NoRunError
  /\ exitCode = -1
  /\ handler = HandlerOff
  /\ pgClients = 0
  /\ mysqlConns = 0

\* the run does not take place (the sort harness)
RunIdle ==
  /\ pc = "idle"
  /\ fileType = "json"
  /\ tables = <<>>
  /\ edges = {}
  /\ sortedTables = <<>>
  /\ idx = 1
  /\ cur = NoCur
  /\ tstate = [t \in Tables |-> "Pending"]
  /\ inserts = <<>>
  /\ inflight = 0
  /\ destination = [t \in Tables |-> {}]
  /\ error = NoRunError
  /\ exitCode = -1
  /\ handler = HandlerOff
  /\ pgClients = 0
  /\ mysqlConns = 0

selectedStat(c) == IF fileType = "json" THEN c.json ELSE c.csv

\* process.exit(code) from main, before the import loop
ExitMain(code, kind) ==
  /\ pc' = "exited"
  /\ exitCode' = code
  /\ error' = [kind |-> kind, table |-> ""]

\* `continue`, or the end of the loop body: the table is left in state st
Continue(t, st, c) ==
  /\ pc' = "loop"
  /\ idx' = idx + 1
  /\ tstate' = [tstate EXCEPT ![t] = st]
  /\ cur' = c
  /\ UNCHANGED <<error, exitCode, pgClients, mysqlConns>>

\* the loop suspends at an await, the table being in state st
Await(t, where, st, c) ==
  /\ pc' = where
  /\ tstate' = [tstate EXCEPT ![t] = st]
  /\ cur' = c
  /\ UNCHANGED <<idx, error, exitCode, pgClients, mysqlConns>>

\* an error that is logged and after which the loop goes on to the next table
ThrowAndContinue(t, kind, c) ==
  /\ pc' = "loop"
  /\ idx' = idx + 1
  /\ tstate' = [tstate EXCEPT ![t] = "Failed"]
  /\ cur' = c
  /\ error' = [kind |-> kind, table |-> t]
  /\ UNCHANGED <<exitCode, pgClients, mysqlConns>>

\* a throw inside a loop that has no finally block
ThrowNoRelease(t, kind, c) ==
  /\ pc' = "exited"
  /\ exitCode' = 1
  /\ tstate' = [tstate EXCEPT ![t] = "Failed"]
  /\ cur' = c
  /\ error' = [kind |-> kind, table |-> t]
  /\ UNCHANGED <<idx, pgClients, mysqlConns>>

\* a throw inside the loop: the finally block releases both connections and
\* the catch of main logs the error and calls process.exit(1)
Throw(t, kind, c) ==
  /\ pc' = "exited"
  /\ exitCode' = 1
  /\ tstate' = [tstate EXCEPT ![t] = "Failed"]
  /\ cur' = c
  /\ error' = [kind |-> kind, table |-> t]
  /\ pgClients' = pgClients - 1
  /\ mysqlConns' = mysqlConns - 1
  /\ UNCHANGED idx

Min(x, y) == IF x < y THEN x ELSE y

\* a slice that is not cut at the end of the array
BatchLenUnclipped(n, i) == BATCH_SIZE

\* data.slice(i, i + BATCH_SIZE).length
BatchLen(n, i) == Min(BATCH_SIZE, n - i)

\* an insert statement without a conflict clause
InsertStatementPlain(c) ==
  [table |-> c.table,
   batch |-> (c.i \div BATCH_SIZE) + 1,
   first |-> c.i,
   size |-> BatchLen(c.content.rows, c.i),
   onConflict |-> "",
   columns |-> c.pgColumns,
   exported |-> c.exportedColumns]

\* the insert statement built from the batch at offset c.i: the rows
\* data[first], ..., data[first + size - 1] of the artifact
InsertStatement(c) ==
  [table |-> c.table,
   batch |-> (c.i \div BATCH_SIZE) + 1,
   first |-> c.i,
   size |-> BatchLen(c.content.rows, c.i),
   onConflict |-> "DO NOTHING",
   columns |-> c.pgColumns,
   exported |-> c.exportedColumns]

\* the rows of a statement, as a range of the artifact's rows
RowsOf(statement) == <<statement.first, statement.size>>

\* PostgreSQL executing an insert statement outside a transaction block: the
\* rows are stored when the statement completes; a row whose unique key is
\* already in the table is left out under ON CONFLICT DO NOTHING and makes the
\* statement fail otherwise
pgQuery(rows, statement) ==
  IF statement.onConflict = "DO NOTHING" \/ RowsOf(statement) \notin rows
    THEN [conflict |-> FALSE, rows |-> rows \cup {RowsOf(statement)}]
    ELSE [conflict |-> TRUE, rows |-> rows]

\* await pgClient.query(insertQuery) for the batch at offset c.i
IssueBatch(c, completed) ==
  /\ inserts' = Append(inserts, InsertStatement(c))
  /\ inflight' = inflight - completed + 1
  /\ Await(c.table, "insert", "Importing", c)

NoInsert == UNCHANGED <<inserts, inflight, destination>>

\* an importData that builds its first batch without looking at data.length
ImportRowsUnchecked(c) == IssueBatch(c, 0) /\ UNCHANGED destination

\* importData after the rows have been parsed
ImportRows(c) ==
  IF c.content.rows = 0
    THEN Continue(c.table, "Done", c) /\ NoInsert
    ELSE IssueBatch(c, 0) /\ UNCHANGED destination

\* importData up to its first await
importData(c) ==
  IF ~existsSync(selectedStat(c))
    THEN Continue(c.table, "Done", c) /\ NoInsert
  ELSE IF fileType = "json"
    THEN IF ~JsonParses(c.content)
           THEN Continue(c.table, "Done", c) /\ NoInsert
           ELSE ImportRows(c)
    ELSE Await(c.table, "csvRead", "Importing", c) /\ NoInsert

\* a reconciliation that looks only for the columns missing in PostgreSQL
reconcileMissingOnly(c) ==
  IF Len(c.exportedColumns) = 0
    THEN Continue(c.table, "Skipped", c) /\ NoInsert
  ELSE IF Len(missingInPg(c.exportedColumns, c.pgColumns)) > 0
    THEN Throw(c.table, "MissingInDestination", c) /\ NoInsert
  ELSE importData(c)

\* a reconciliation that logs a mismatch and goes on to the next table
reconcileSkipsMismatch(c) ==
  IF Len(c.exportedColumns) = 0
       \/ Len(missingInPg(c.exportedColumns, c.pgColumns)) > 0
       \/ Len(extraInPg(c.exportedColumns, c.pgColumns)) > 0
    THEN Continue(c.table, "Skipped", c) /\ NoInsert
    ELSE importData(c)

\* validateAndImportSchemas from the exported columns to the call of importData
reconcile(c) ==
  IF Len(c.exportedColumns) = 0
    THEN Continue(c.table, "Skipped", c) /\ NoInsert
  ELSE IF Len(missingInPg(c.exportedColumns, c.pgColumns)) > 0
    THEN Throw(c.table, "MissingInDestination", c) /\ NoInsert
  ELSE IF Len(extraInPg(c.exportedColumns, c.pgColumns)) > 0
    THEN Throw(c.table, "ExtraInDestination", c) /\ NoInsert
  ELSE importData(c)

\* a check for missing files that hands the table to importData at once
checkFilesExistThenImport(c) ==
  IF ~existsSync(c.json) /\ ~existsSync(c.csv)
    THEN Continue(c.table, "Skipped", c) /\ NoInsert
    ELSE importData(c)

\* the check for missing files and the start of the schema query
checkFilesExist(c) ==
  IF ~existsSync(c.json) /\ ~existsSync(c.csv)
    THEN Continue(c.table, "Skipped", c) /\ NoInsert
    ELSE Await(c.table, "schema", "Validating", c) /\ NoInsert

isJsonFileEmpty(c) == existsSync(c.json) /\ isFileEmpty(c.json)

isCsvFileEmpty(c) == existsSync(c.csv) /\ isFileEmpty(c.csv)

\* checks that also stop on a non-empty MySQL table whose files are missing
checkEmptyOrMissing(c) ==
  LET tableIsEmpty == c.rowCount = 0
      noData(stat) == ~existsSync(stat) \/ isFileEmpty(stat)
  IN IF tableIsEmpty /\ isJsonFileEmpty(c) /\ isCsvFileEmpty(c)
       THEN Continue(c.table, "Skipped", c) /\ NoInsert
     ELSE IF ~tableIsEmpty /\ noData(c.json) /\ noData(c.csv)
       THEN Throw(c.table, "InconsistentState", c) /\ NoInsert
     ELSE checkFilesExist(c)

\* the two checks on an empty MySQL table and empty files
checkEmpty(c) ==
  LET tableIsEmpty == c.rowCount = 0
  IN IF tableIsEmpty /\ isJsonFileEmpty(c) /\ isCsvFileEmpty(c)
       THEN Continue(c.table, "Skipped", c) /\ NoInsert
     ELSE IF ~tableIsEmpty /\ (isJsonFileEmpty(c) /\ isCsvFileEmpty(c))
       THEN Throw(c.table, "InconsistentState", c) /\ NoInsert
     ELSE checkFilesExist(c)

\* what the checks before the schema query do with a table, from the stats of
\* its two files, whether MySQL has it and its row count: `continue`
\* ("Skipped"), throw ("InconsistentState") or go on to the schema query
checksBeforeSchema(c) ==
  LET tableIsEmpty == c.rowCount = 0
  IN IF c.inMysql /\ tableIsEmpty /\ isJsonFileEmpty(c) /\ isCsvFileEmpty(c)
       THEN "Skipped"
     ELSE IF c.inMysql /\ ~tableIsEmpty /\ (isJsonFileEmpty(c) /\ isCsvFileEmpty(c))
       THEN "InconsistentState"
     ELSE IF ~existsSync(c.json) /\ ~existsSync(c.csv)
       THEN "Skipped"
     ELSE "Validating"

RunConstants == <<fileType, tables, edges, sortedTables>>

\* main: the export directory is looked up, checkPgConnection is awaited
MainStart ==
  /\ pc = "start"
  /\ \E dirExists \in BOOLEAN :
       IF dirExists
         THEN /\ pc' = "checkPg"
              /\ UNCHANGED <<error, exitCode>>
         ELSE ExitMain(1, "NoExportDir")
  /\ UNCHANGED <<idx, cur, tstate, inserts, inflight, destination, pgClients, mysqlConns>>
  /\ UNCHANGED RunConstants
  /\ UNCHANGED handler
  /\ UNCHANGED harnessVars

\* checkPgConnection returned or ended the process
CheckPgDone ==
  /\ pc = "checkPg"
  /\ \E outcome \in {"ok", "connectFails", "queryFails"} :
       CASE outcome = "ok" ->
              /\ pc' = "checkMySQL"
              /\ UNCHANGED <<error, exitCode, pgClients>>
         [] outcome = "connectFails" ->
              /\ ExitMain(1, "ConnectionError")
              /\ UNCHANGED pgClients
         [] OTHER ->
              /\ ExitMain(1, "ConnectionError")
              /\ pgClients' = pgClients + 1
  /\ UNCHANGED <<idx, cur, tstate, inserts, inflight, destination, mysqlConns>>
  /\ UNCHANGED RunConstants
  /\ UNCHANGED handler
  /\ UNCHANGED harnessVars

\* checkMySQLConnectionAndGetTables returned or threw; the export directory is
\* read and a client is asked of pgPool for the foreign-key query (a pool that
\* is ending rejects the request)
CheckMySQLDone ==
  /\ pc = "checkMySQL"
  /\ \E ok \in BOOLEAN, files \in RunTableLists :
       IF ~ok
         THEN ExitMain(1, "ConnectionError") /\ UNCHANGED tables
       ELSE IF Len(files) = 0
         THEN ExitMain(1, "NoFiles") /\ UNCHANGED tables
       ELSE IF handler.state # "off"
         THEN ExitMain(1, "PoolEnded") /\ tables' = files
       ELSE /\ tables' = files
            /\ pc' = "fkQuery"
            /\ UNCHANGED <<error, exitCode>>
  /\ UNCHANGED <<idx, cur, tstate, inserts, inflight, destination, pgClients, mysqlConns>>
  /\ UNCHANGED <<fileType, edges, sortedTables>>
  /\ UNCHANGED handler
  /\ UNCHANGED harnessVars

\* the foreign-key query returned or failed; the tables are sorted; the client
\* is released and validateAndImportSchemas asks for its two connections
FkQueryDone ==
  /\ pc = "fkQuery"
  /\ \E outcome \in {"ok", "connectFails", "queryFails"}, rows \in RunFkRowLists :
       CASE outcome = "connectFails" ->
              /\ ExitMain(1, "CatalogError")
              /\ UNCHANGED <<edges, sortedTables, pgClients>>
         [] outcome = "queryFails" ->
              /\ ExitMain(1, "CatalogError")
              /\ pgClients' = pgClients + 1
              /\ UNCHANGED <<edges, sortedTables>>
         [] OTHER ->
              LET result == topologicalSort(tables, getForeignKeyDependencies(rows))
              IN /\ edges' = EdgesOfRows(rows)
                 /\ IF result.threw
                      THEN /\ pc' = "exited"
                           /\ exitCode' = 1
                           /\ error' = [kind |-> "CyclicDependency", table |-> result.error]
                           /\ pgClients' = pgClients + 1
                           /\ UNCHANGED sortedTables
                    ELSE IF handler.state # "off"
                      THEN /\ sortedTables' = result.sorted
                           /\ ExitMain(1, "PoolEnded")
                           /\ UNCHANGED pgClients
                      ELSE /\ sortedTables' = result.sorted
                           /\ pc' = "acquire"
                           /\ UNCHANGED <<error, exitCode, pgClients>>
  /\ UNCHANGED <<idx, cur, tstate, inserts, inflight, destination, mysqlConns>>
  /\ UNCHANGED <<fileType, tables>>
  /\ UNCHANGED handler
  /\ UNCHANGED harnessVars

\* pgPool.connect() and mysqlPool.getConnection() of validateAndImportSchemas
AcquireDone ==
  /\ pc = "acquire"
  /\ \E outcome \in {"ok", "pgFails", "mysqlFails"} :
       CASE outcome = "ok" ->
              /\ pc' = "loop"
              /\ pgClients' = pgClients + 1
              /\ mysqlConns' = mysqlConns + 1
              /\ UNCHANGED <<error, exitCode>>
         [] outcome = "pgFails" ->
              /\ ExitMain(1, "ConnectionError")
              /\ UNCHANGED <<pgClients, mysqlConns>>
         [] OTHER ->
              /\ ExitMain(1, "ConnectionError")
              /\ pgClients' = pgClients + 1
              /\ UNCHANGED mysqlConns
  /\ UNCHANGED <<idx, cur, tstate, inserts, inflight, destination>>
  /\ UNCHANGED RunConstants
  /\ UNCHANGED handler
  /\ UNCHANGED harnessVars

\* the for-loop takes the next table, or ends: the finally block releases the
\* connections and main awaits pgPool.end(), which rejects when the SIGINT
\* handler has called it before
LoopBegin ==
  /\ pc = "loop"
  /\ IF idx > Len(sortedTables)
       THEN /\ IF handler.state # "off"
                 THEN ExitMain(1, "PoolEndedTwice")
                 ELSE pc' = "poolEnd" /\ UNCHANGED <<error, exitCode>>
            /\ pgClients' = pgClients - 1
            /\ mysqlConns' = mysqlConns - 1
            /\ UNCHANGED <<idx, cur, tstate>>
            /\ NoInsert
       ELSE \E js \in FileStats, cs \in FileStats, m \in BOOLEAN :
              LET t == sortedTables[idx]
                  c == [NoCur EXCEPT !.table = t, !.json = js, !.csv = cs, !.inMysql = m]
              IN /\ existsSync(selectedStat(c)) <=> includes(tables, t)
                 /\ IF m
                      THEN Await(t, "count", "Pending", c) /\ NoInsert
                      ELSE checkFilesExist(c)
  /\ UNCHANGED RunConstants
  /\ UNCHANGED handler
  /\ UNCHANGED harnessVars

\* isMySQLTableEmpty returned or threw
CountDone ==
  /\ pc = "count"
  /\ \/ Throw(cur.table, "QueryError", cur) /\ NoInsert
     \/ \E n \in MysqlCounts : checkEmpty([cur EXCEPT !.rowCount = n])
  /\ UNCHANGED RunConstants
  /\ UNCHANGED handler
  /\ UNCHANGED harnessVars

\* a schema query that is logged and issued again when it failed
SchemaDoneRetries ==
  /\ pc = "schema"
  /\ \/ /\ error' = [kind |-> "CatalogError", table |-> cur.table]
        /\ UNCHANGED <<pc, idx, cur, tstate, exitCode, pgClients, mysqlConns>>
        /\ NoInsert
     \/ \E cols \in PgColLists :
          LET c == [cur EXCEPT !.pgColumns = cols]
          IN IF fileType = "json" /\ existsSync(c.json)
               THEN \E content \in ContentsOf("json", c.json) :
                      IF ~JsonParses(content)
                        THEN Throw(c.table, "ParseError", [c EXCEPT !.content = content])
                             /\ NoInsert
                        ELSE reconcile([c EXCEPT !.content = content,
                                                 !.exportedColumns = JsonKeys(content)])
             ELSE IF fileType = "csv" /\ existsSync(c.csv)
               THEN Await(c.table, "headers", "Validating", c) /\ NoInsert
             ELSE reconcile(c)
  /\ UNCHANGED RunConstants
  /\ UNCHANGED handler
  /\ UNCHANGED harnessVars

\* getPgTableSchema returned or threw; the artifact of the selected type is read
SchemaDone ==
  /\ pc = "schema"
  /\ \/ Throw(cur.table, "CatalogError", cur) /\ NoInsert
     \/ \E cols \in PgColLists :
          LET c == [cur EXCEPT !.pgColumns = cols]
          IN IF fileType = "json" /\ existsSync(c.json)
               THEN \E content \in ContentsOf("json", c.json) :
                      IF ~JsonParses(content)
                        THEN Throw(c.table, "ParseError", [c EXCEPT !.content = content])
                             /\ NoInsert
                        ELSE reconcile([c EXCEPT !.content = content,
                                                 !.exportedColumns = JsonKeys(content)])
             ELSE IF fileType = "csv" /\ existsSync(c.csv)
               THEN Await(c.table, "headers", "Validating", c) /\ NoInsert
             ELSE reconcile(c)
  /\ UNCHANGED RunConstants
  /\ UNCHANGED handler
  /\ UNCHANGED harnessVars

\* getCsvHeaders resolved or rejected
HeadersDone ==
  /\ pc = "headers"
  /\ \E content \in ContentsOf("csv", cur.csv) :
       LET c == [cur EXCEPT !.content = content]
       IN IF CsvHeadersReject(content)
            THEN Throw(c.table, "ParseError", c) /\ NoInsert
            ELSE reconcile([c EXCEPT !.exportedColumns = CsvHeaders(content)])
  /\ UNCHANGED RunConstants
  /\ UNCHANGED handler
  /\ UNCHANGED harnessVars

\* importData has read the CSV records, or caught the parser's error
CsvReadDone ==
  /\ pc = "csvRead"
  /\ IF CsvReadRejects(cur.content)
       THEN Continue(cur.table, "Done", cur) /\ NoInsert
       ELSE ImportRows(cur)
  /\ UNCHANGED RunConstants
  /\ UNCHANGED handler
  /\ UNCHANGED harnessVars

\* an insert statement that is issued again when it failed
InsertDoneRetries ==
  /\ pc = "insert"
  /\ LET statement == inserts[Len(inserts)]
         result == pgQuery(destination[cur.table], statement)
     IN \/ IssueBatch(cur, 1) /\ UNCHANGED destination
        \/ /\ ~result.conflict
           /\ destination' = [destination EXCEPT ![cur.table] = result.rows]
           /\ IF cur.i + BATCH_SIZE < cur.content.rows
                THEN IssueBatch([cur EXCEPT !.i = @ + BATCH_SIZE], 1)
                ELSE /\ Continue(cur.table, "Done", cur)
                     /\ inflight' = inflight - 1
                     /\ UNCHANGED inserts
  /\ Len(inserts) < 4
  /\ UNCHANGED RunConstants
  /\ UNCHANGED handler
  /\ UNCHANGED harnessVars

\* the insert statement completed or failed
InsertDone ==
  /\ pc = "insert"
  /\ LET statement == inserts[Len(inserts)]
         result == pgQuery(destination[cur.table], statement)
     IN \/ /\ Throw(cur.table, "InsertError", cur)
           /\ inflight' = inflight - 1
           /\ UNCHANGED <<inserts, destination>>
        \/ IF result.conflict
             THEN /\ Throw(cur.table, "UniqueViolation", cur)
                  /\ inflight' = inflight - 1
                  /\ UNCHANGED <<inserts, destination>>
             ELSE /\ destination' = [destination EXCEPT ![cur.table] = result.rows]
                  /\ IF cur.i + BATCH_SIZE < cur.content.rows
                       THEN IssueBatch([cur EXCEPT !.i = @ + BATCH_SIZE], 1)
                       ELSE /\ Continue(cur.table, "Done", cur)
                            /\ inflight' = inflight - 1
                            /\ UNCHANGED inserts
  /\ UNCHANGED RunConstants
  /\ UNCHANGED handler
  /\ UNCHANGED harnessVars

\* pgPool.end() and mysqlPool.end() returned: process.exit(0)
PoolEnd ==
  /\ pc = "poolEnd"
  /\ pc' = "exited"
  /\ exitCode' = 0
  /\ UNCHANGED <<idx, cur, tstate, inserts, inflight, destination, error, pgClients, mysqlConns>>
  /\ UNCHANGED RunConstants
  /\ UNCHANGED handler
  /\ UNCHANGED harnessVars

(***************************************************************************)
(* The SIGINT handler.  Node runs it between two steps of main, while main *)
(* is suspended at an await.  pgPool.end() resolves once no client of the  *)
(* pool is connecting or checked out, rejects when it is called a second   *)
(* time, and makes every later pgPool.connect() reject; mysqlPool.end()    *)
(* closes the connections of the pool.  A promise that rejects in the      *)
(* handler is handled nowhere: node ends the process with code 1 (its      *)
(* default since version 15) or only warns (before).                       *)
(***************************************************************************)
Awaits ==
  {"checkPg", "checkMySQL", "fkQuery", "acquire", "count", "schema", "headers",
   "csvRead", "insert", "poolEnd"}

\* what main awaits when the signal arrives
SignalAt == IF pc = "insert" THEN "insert" ELSE "other"

\* a client of pgPool is connecting or checked out
PgClientInUse == pgClients > 0 \/ pc \in {"checkPg", "fkQuery", "acquire"}

\* the signal arrives: the handler calls pgPool.end() and awaits it; called
\* while main awaits its own pgPool.end(), it rejects
Sigint ==
  /\ pc \in Awaits
  /\ handler.state = "off"
  /\ IF pc = "poolEnd"
       THEN /\ handler' = [state |-> "rejected", at |-> SignalAt]
            /\ \/ ExitMain(1, "UnhandledRejection")
               \/ UNCHANGED <<pc, error, exitCode>>
       ELSE /\ handler' = [state |-> "pgEnd", at |-> SignalAt]
            /\ UNCHANGED <<pc, error, exitCode>>
  /\ UNCHANGED <<idx, cur, tstate, inserts, inflight, destination, pgClients, mysqlConns>>
  /\ UNCHANGED RunConstants
  /\ UNCHANGED harnessVars

\* one more signal arrives while the handler awaits: pgPool.end() is called
\* again and rejects (a node that only warns leaves everything as it is)
SigintAgain ==
  /\ pc \in Awaits
  /\ handler.state # "off"
  /\ ExitMain(1, "UnhandledRejection")
  /\ UNCHANGED <<idx, cur, tstate, inserts, inflight, destination, handler, pgClients,
                 mysqlConns>>
  /\ UNCHANGED RunConstants
  /\ UNCHANGED harnessVars

\* pgPool.end() resolved: the handler calls mysqlPool.end() and awaits it
HandlerPgPoolEnded ==
  /\ pc \in Awaits
  /\ handler.state = "pgEnd"
  /\ ~PgClientInUse
  /\ handler' = [handler EXCEPT !.state = "mysqlEnd"]
  /\ UNCHANGED <<pc, idx, cur, tstate, inserts, inflight, destination, error, exitCode,
                 pgClients, mysqlConns>>
  /\ UNCHANGED RunConstants
  /\ UNCHANGED harnessVars

\* mysqlPool.end() resolved: process.exit(0)
HandlerExit ==
  /\ pc \in Awaits
  /\ handler.state = "mysqlEnd"
  /\ pc' = "exited"
  /\ exitCode' = 0
  /\ UNCHANGED <<idx, cur, tstate, inserts, inflight, destination, error, handler,
                 pgClients, mysqlConns>>
  /\ UNCHANGED RunConstants
  /\ UNCHANGED harnessVars

(***************************************************************************)
(* The MySQL exporter (src/unnamed/part_001).  exportDatabaseTables lists  *)
(* the tables of the database and hands them to                            *)
(* processTablesWithConcurrencyLimit, which starts exportTableData for the *)
(* tables not ignored, at most concurrencyLimit at a time.  In the pool    *)
(* the export of one table is taken by its promise alone: it settles,      *)
(* fulfilled or rejected, and its then or catch callback runs.  What the   *)
(* export of one table does step by step is modelled apart, further down.  *)
(***************************************************************************)
\* tables of the MySQL database
ExportTables == {"a", "b", "c", "d", "e", "f", "g", "migrations"}

\* the tables other than the default ignored one, in the order the catalog
\* lists them
ExportOrder == <<"a", "b", "c", "d", "e", "f", "g">>

\* const concurrencyLimit of exportDatabaseTables
concurrencyLimit == 5

defaultIgnoreTables == <<"migrations">>

\* values of additionalIgnoreTables: IGNORE_TABLES unset, or naming one table
IgnoreEnvs == {<<>>, <<"b">>}

RECURSIVE SetAddAll(_, _, _)
SetAddAll(s, list, i) ==
  IF i > Len(list) THEN s ELSE SetAddAll(SetAdd(s, list[i]), list, i + 1)

\* [...new Set([...defaultIgnoreTables, ...additionalIgnoreTables])]
ignoreTables == SetAddAll(SetAddAll(<<>>, defaultIgnoreTables, 1), ignoreEnv, 1)

InsertAt(s, i, x) == SubSeq(s, 1, i) \o <<x>> \o SubSeq(s, i + 1, Len(s))

\* the lists the catalog query can return: any of the tables of ExportOrder,
\* in that order, with or without the table "migrations" at any place
ExportLists ==
  LET picked == {SelectSeq(ExportOrder, LAMBDA t : t \in S) : S \in SUBSET Range(ExportOrder)}
  IN picked \cup UNION {{InsertAt(l, i, "migrations") : i \in 0..Len(l)} : l \in picked}

ExportStates == {"untouched", "skipped", "running", "exported", "failed"}

\* the locals of processTablesWithConcurrencyLimit as one value
PoolState ==
  [index |-> index, activeCount |-> activeCount, queue |-> queue,
   exportState |-> exportState, allCalls |-> allCalls]

PoolStart ==
  [index |-> 0, activeCount |-> 0, queue |-> <<>>,
   exportState |-> [t \in ExportTables |-> "untouched"], allCalls |-> 0]

SetPool(s) ==
  /\ index' = s.index
  /\ activeCount' = s.activeCount
  /\ queue' = s.queue
  /\ exportState' = s.exportState
  /\ allCalls' = s.allCalls

RECURSIVE nextLoop(_, _)
RECURSIVE nextLoopUnlimited(_, _)

\* a loop that starts every table left in the list
nextLoopUnlimited(s, tableList) ==
  IF s.index < Len(tableList)
    THEN LET tableName == tableList[s.index + 1]
             taken == [s EXCEPT !.index = @ + 1]
         IN IF includes(ignoreTables, tableName)
              THEN nextLoopUnlimited([taken EXCEPT !.exportState[tableName] = "skipped"],
                                     tableList)
              ELSE nextLoopUnlimited([taken EXCEPT !.activeCount = @ + 1,
                                                   !.exportState[tableName] = "running",
                                                   !.queue = Append(@, tableName)],
                                     tableList)
    ELSE s

\* the while loop of next(): tables are taken from the list while fewer than
\* concurrencyLimit exports are active; an ignored table is passed over,
\* exportTableData is started for any other and its promise is pushed
nextLoop(s, tableList) ==
  IF s.activeCount < concurrencyLimit /\ s.index < Len(tableList)
    THEN LET tableName == tableList[s.index + 1]
             taken == [s EXCEPT !.index = @ + 1]
         IN IF includes(ignoreTables, tableName)
              THEN nextLoop([taken EXCEPT !.exportState[tableName] = "skipped"], tableList)
              ELSE nextLoop([taken EXCEPT !.activeCount = @ + 1,
                                          !.exportState[tableName] = "running",
                                          !.queue = Append(@, tableName)],
                            tableList)
    ELSE s

\* next(): the loop, then Promise.all(queue) once the list is used up and no
\* export is active
next(s, tableList) ==
  LET after == nextLoop(s, tableList)
  IN IF after.index >= Len(tableList) /\ after.activeCount = 0
       THEN [after EXCEPT !.allCalls = @ + 1]
       ELSE after

\* .then(() => { activeCount--; next(); })
onFulfilled(s, tableName, tableList) ==
  next([s EXCEPT !.activeCount = @ - 1, !.exportState[tableName] = "exported"], tableList)

\* a catch callback that logs the error and does nothing else
onRejectedLogsOnly(s, tableName, tableList) ==
  [s EXCEPT !.exportState[tableName] = "failed"]

\* a catch callback after which no further table is taken from the list
onRejectedStops(s, tableName, tableList) ==
  next([s EXCEPT !.activeCount = @ - 1, !.exportState[tableName] = "failed",
                 !.index = Len(tableList)], tableList)

\* .catch((error) => { activeCount--; logger.error(...); next(); })
onRejected(s, tableName, tableList) ==
  next([s EXCEPT !.activeCount = @ - 1, !.exportState[tableName] = "failed"], tableList)

\* the promise a table's export left in the queue is fulfilled once its then
\* or catch callback has returned
Fulfilled(t) == exportState[t] \in {"exported", "failed"}

NoXt ==
  [pc |-> "idle", columns |-> <<>>, rows |-> 0, columnNames |-> <<>>, batch |-> 0,
   offset |-> 0, rowCount |-> 0, isFirstChunk |-> TRUE, connected |-> FALSE, outcome |-> ""]

AbsentCsv == [exists |-> FALSE, lines |-> <<>>]

AbsentJson == [exists |-> FALSE, text |-> <<>>]

\* exportTableData is not followed step by step
TableIdle ==
  /\ xt = NoXt
  /\ csvFile = AbsentCsv
  /\ jsonFile = AbsentJson

tableVars == <<xt, csvFile, jsonFile>>

poolVars == <<ignoreEnv, exPc, exTables, index, activeCount, queue, exportState, allCalls,
             resolved>>

importerVars == <<sortTables, sortRows, sortCalled, sortResult, callArgs, callDone,
                 callResult, pc, fileType, tables, edges, sortedTables, idx, cur, tstate,
                 inserts, inflight, destination, error, exitCode, handler, pgClients,
                 mysqlConns>>

\* the exporter does not run
PoolIdle ==
  /\ exPc = "idle"
  /\ exTables = <<>>
  /\ index = 0
  /\ activeCount = 0
  /\ queue = <<>>
  /\ exportState = [t \in ExportTables |-> "untouched"]
  /\ allCalls = 0
  /\ resolved = FALSE

ExportIdle ==
  /\ ignoreEnv = <<>>
  /\ PoolIdle
  /\ TableIdle

\* the exporter's module is loaded: ignoreTables is built from the environment
PoolInit ==
  /\ ignoreEnv \in IgnoreEnvs
  /\ exPc = "getConnection"
  /\ exTables = <<>>
  /\ index = 0
  /\ activeCount = 0
  /\ queue = <<>>
  /\ exportState = [t \in ExportTables |-> "untouched"]
  /\ allCalls = 0
  /\ resolved = FALSE

\* exportDatabaseTables: pool.getConnection() resolved or rejected; on a
\* rejection the catch logs it and the finally block awaits pool.end()
ExportConnected ==
  /\ exPc = "getConnection"
  /\ \E ok \in BOOLEAN : exPc' = IF ok THEN "listTables" ELSE "poolEnd"
  /\ UNCHANGED <<ignoreEnv, exTables, index, activeCount, queue, exportState, allCalls,
                 resolved>>
  /\ UNCHANGED tableVars
  /\ UNCHANGED importerVars

\* the query of INFORMATION_SCHEMA.TABLES returned or failed; without tables
\* the function returns; else processTablesWithConcurrencyLimit is called and
\* its executor runs next() a first time
ExportTablesListed ==
  /\ exPc = "listTables"
  /\ \E ok \in BOOLEAN, list \in ExportLists :
       IF ~ok \/ Len(list) = 0
         THEN /\ exPc' = "poolEnd"
              /\ UNCHANGED <<exTables, index, activeCount, queue, exportState, allCalls>>
         ELSE /\ exPc' = "exporting"
              /\ exTables' = list
              /\ SetPool(next(PoolStart, list))
  /\ UNCHANGED <<ignoreEnv, resolved>>
  /\ UNCHANGED tableVars
  /\ UNCHANGED importerVars

\* an export whose rejection leaves the pool as it is
ExportSettledLogsOnly ==
  /\ exPc = "exporting"
  /\ \E t \in ExportTables, ok \in BOOLEAN :
       /\ exportState[t] = "running"
       /\ SetPool(IF ok THEN onFulfilled(PoolState, t, exTables)
                        ELSE onRejectedLogsOnly(PoolState, t, exTables))
  /\ UNCHANGED <<ignoreEnv, exPc, exTables, resolved>>
  /\ UNCHANGED tableVars
  /\ UNCHANGED importerVars

\* the promise of exportTableData for one table settled: its then or its
\* catch callback runs
ExportSettled ==
  /\ exPc = "exporting"
  /\ \E t \in ExportTables, ok \in BOOLEAN :
       /\ exportState[t] = "running"
       /\ SetPool(IF ok THEN onFulfilled(PoolState, t, exTables)
                        ELSE onRejected(PoolState, t, exTables))
  /\ UNCHANGED <<ignoreEnv, exPc, exTables, resolved>>
  /\ UNCHANGED tableVars
  /\ UNCHANGED importerVars

\* Promise.all(queue) is fulfilled and resolve() is called: the await of
\* exportDatabaseTables returns and its finally block awaits pool.end()
ExportResolved ==
  /\ exPc = "exporting"
  /\ allCalls > 0
  /\ \A i \in 1..Len(queue) : Fulfilled(queue[i])
  /\ resolved' = TRUE
  /\ exPc' = "poolEnd"
  /\ UNCHANGED <<ignoreEnv, exTables, index, activeCount, queue, exportState, allCalls>>
  /\ UNCHANGED tableVars
  /\ UNCHANGED importerVars

\* pool.end() returned: exportDatabaseTables is over
ExportPoolEnded ==
  /\ exPc = "poolEnd"
  /\ exPc' = "closed"
  /\ UNCHANGED <<ignoreEnv, exTables, index, activeCount, queue, exportState, allCalls,
                 resolved>>
  /\ UNCHANGED tableVars
  /\ UNCHANGED importerVars

(***************************************************************************)
(* exportTableData, step by step, for one table of the source database.    *)
(* The table does not change while it is exported; the export directory    *)
(* was emptied by exportDatabaseTables, so neither file exists before.  A  *)
(* file is what has been written to it: the lines of the CSV file (the     *)
(* header line, the records) and the chunks of the JSON file.  A write     *)
(* of the CSV writer that rejects is taken to have written nothing.        *)
(***************************************************************************)
\* const batchSize of exportTableData
batchSize == 1000

\* rows of the source table
ExportRowCounts == {0, 1, 2, batchSize, batchSize + 1}

\* columns of the source table
ExportColumnLists ==
  {l \in SeqsUpTo(ColumnNames, 2) : Len(l) > 0 /\ \A i, j \in 1..Len(l) : i # j => l[i] # l[j]}

HeaderLine(columnNames) == [kind |-> "header", fields |-> columnNames]

RecordLine(columnNames) == [kind |-> "record", fields |-> columnNames]

\* csvWriter.writeRecords(batchRows): with append false the file is replaced
\* by the header line and the records, with append true the records are added
writeRecords(lines, append, columnNames, n) ==
  IF append
    THEN lines \o [i \in 1..n |-> RecordLine(columnNames)]
    ELSE <<HeaderLine(columnNames)>> \o [i \in 1..n |-> RecordLine(columnNames)]

\* the chunks the for-loop writes for n rows: ',\n' before every row but the
\* first of the file
RowChunks(isFirstChunk, n) ==
  IF isFirstChunk
    THEN [i \in 1..(2 * n - 1) |-> IF i % 2 = 1 THEN "{row}" ELSE ",\n"]
    ELSE [i \in 1..(2 * n) |-> IF i % 2 = 1 THEN ",\n" ELSE "{row}"]

\* the rows a query with LIMIT limit OFFSET offset returns from n rows
Limit(n, limit, offset) == IF n - offset <= 0 THEN 0 ELSE Min(limit, n - offset)

\* the catch block rethrows and the finally block releases the connection
XtThrow ==
  /\ xt' = [xt EXCEPT !.pc = "settled", !.outcome = "rejected", !.connected = FALSE]
  /\ UNCHANGED <<csvFile, jsonFile>>

\* return, or the end of the function: the finally block releases the connection
XtReturn(x) == xt' = [x EXCEPT !.pc = "settled", !.outcome = "resolved", !.connected = FALSE]

XtInit ==
  /\ \E columns \in ExportColumnLists, rows \in ExportRowCounts :
       xt = [NoXt EXCEPT !.pc = "getConnection", !.columns = columns, !.rows = rows]
  /\ csvFile = AbsentCsv
  /\ jsonFile = AbsentJson

\* pool.getConnection() resolved or rejected (it is awaited outside the try)
XtConnected ==
  /\ xt.pc = "getConnection"
  /\ \E ok \in BOOLEAN :
       xt' = IF ok THEN [xt EXCEPT !.pc = "columns", !.connected = TRUE]
                   ELSE [xt EXCEPT !.pc = "settled", !.outcome = "rejected"]
  /\ UNCHANGED <<csvFile, jsonFile>>
  /\ UNCHANGED poolVars
  /\ UNCHANGED importerVars

\* the query of INFORMATION_SCHEMA.COLUMNS returned or failed
XtColumnsDone ==
  /\ xt.pc = "columns"
  /\ \/ XtThrow
     \/ /\ xt' = [xt EXCEPT !.pc = "probe", !.columnNames = xt.columns]
        /\ UNCHANGED <<csvFile, jsonFile>>
  /\ UNCHANGED poolVars
  /\ UNCHANGED importerVars

\* a probe that never takes the table for empty
XtProbeDoneNoEmptyCheck ==
  /\ xt.pc = "probe"
  /\ \/ XtThrow
     \/ /\ jsonFile' = [exists |-> TRUE, text |-> <<"[">>]
        /\ xt' = [xt EXCEPT !.pc = "batch"]
        /\ UNCHANGED csvFile
  /\ UNCHANGED poolVars
  /\ UNCHANGED importerVars

\* SELECT * ... LIMIT 1 returned or failed: for an empty table both files are
\* written and the function returns; else the JSON stream is opened and '['
\* written to it
XtProbeDone ==
  /\ xt.pc = "probe"
  /\ \/ XtThrow
     \/ IF Limit(xt.rows, 1, 0) = 0
          THEN /\ csvFile' = [exists |-> TRUE, lines |-> <<>>]
               /\ jsonFile' = [exists |-> TRUE, text |-> <<"[", "]">>]
               /\ XtReturn(xt)
          ELSE /\ jsonFile' = [exists |-> TRUE, text |-> <<"[">>]
               /\ xt' = [xt EXCEPT !.pc = "batch"]
               /\ UNCHANGED csvFile
  /\ UNCHANGED poolVars
  /\ UNCHANGED importerVars

\* SELECT * ... LIMIT ? OFFSET ? returned or failed: without rows the loop is
\* left, ']' is written and the stream ended; else the batch goes to the CSV
\* writer
XtBatchDone ==
  /\ xt.pc = "batch"
  /\ \/ XtThrow
     \/ LET n == Limit(xt.rows, batchSize, xt.offset)
        IN IF n = 0
             THEN /\ jsonFile' = [jsonFile EXCEPT !.text = Append(@, "]")]
                  /\ XtReturn(xt)
                  /\ UNCHANGED csvFile
             ELSE /\ xt' = [xt EXCEPT !.pc = "writeRecords", !.batch = n]
                  /\ UNCHANGED <<csvFile, jsonFile>>
  /\ UNCHANGED poolVars
  /\ UNCHANGED importerVars

\* writeRecords resolved or rejected; the rows of the batch are written to
\* the JSON stream and the next batch is asked for
XtRecordsWritten ==
  /\ xt.pc = "writeRecords"
  /\ \/ XtThrow
     \/ /\ csvFile' = [exists |-> TRUE,
                       lines |-> writeRecords(csvFile.lines,
                                              ~(xt.offset = 0 /\ xt.rowCount = 0),
                                              xt.columnNames, xt.batch)]
        /\ jsonFile' = [jsonFile EXCEPT !.text = @ \o RowChunks(xt.isFirstChunk, xt.batch)]
        /\ xt' = [xt EXCEPT !.pc = "batch", !.isFirstChunk = FALSE,
                            !.rowCount = @ + xt.batch, !.offset = @ + batchSize]
  /\ UNCHANGED poolVars
  /\ UNCHANGED importerVars

SortIdle ==
  /\ sortTables = <<>>
  /\ sortRows = <<>>
  /\ sortCalled = TRUE
  /\ sortResult = NoResult

\* no function is applied on its own (the run, the sort harness)
CallIdle ==
  /\ callArgs = <<>>
  /\ callDone = TRUE
  /\ callResult = <<>>

Init == RunInit /\ SortIdle /\ CallIdle /\ ExportIdle

Next ==
  \/ MainStart
  \/ CheckPgDone
  \/ CheckMySQLDone
  \/ FkQueryDone
  \/ AcquireDone
  \/ LoopBegin
  \/ CountDone
  \/ SchemaDone
  \/ HeadersDone
  \/ CsvReadDone
  \/ InsertDone
  \/ PoolEnd

Spec == Init /\ [][Next]_vars

\* the run with the signal
SigintNext ==
  \/ Next
  \/ Sigint
  \/ SigintAgain
  \/ HandlerPgPoolEnded
  \/ HandlerExit

SpecSigint == Init /\ [][SigintNext]_vars

(***************************************************************************)
(* The sort harness: topologicalSort applied to every table list and       *)
(* every list of foreign-key rows within the bounds.                       *)
(***************************************************************************)
\* table lists main hands to topologicalSort: Array.from(tablesSet), no name twice
SortTableLists ==
  {l \in SeqsUpTo(Tables, MaxList) : \A i, j \in 1..Len(l) : i # j => l[i] # l[j]}

SortInit ==
  /\ sortTables \in SortTableLists
  /\ sortRows \in SeqsUpTo(FkRows, MaxEdges)
  /\ sortCalled = FALSE
  /\ sortResult = NoResult
  /\ RunIdle
  /\ CallIdle
  /\ ExportIdle

SortApply ==
  /\ ~sortCalled
  /\ sortCalled' = TRUE
  /\ sortResult' = topologicalSort(sortTables, getForeignKeyDependencies(sortRows))
  /\ UNCHANGED <<sortTables, sortRows>>
  /\ UNCHANGED runVars
  /\ UNCHANGED callVars
  /\ UNCHANGED exportVars

SortNext == SortApply

SpecSort == SortInit /\ [][SortNext]_vars

(***************************************************************************)
(* The reconciliation harness: the two column differences computed for     *)
(* every pair of column lists within the bounds.                           *)
(***************************************************************************)
ColumnLists == SeqsUpTo(ColumnNames, MaxColumns)

ReconcileInit ==
  /\ callArgs \in [pgColumns : ColumnLists, exportedColumns : ColumnLists]
  /\ callDone = FALSE
  /\ callResult = [missingInPg |-> <<>>, extraInPg |-> <<>>]
  /\ RunIdle
  /\ SortIdle
  /\ ExportIdle

ReconcileApply ==
  /\ ~callDone
  /\ callDone' = TRUE
  /\ callResult' = columnDifferences(callArgs.exportedColumns, callArgs.pgColumns)
  /\ UNCHANGED callArgs
  /\ UNCHANGED runVars
  /\ UNCHANGED sortVars
  /\ UNCHANGED exportVars

ReconcileNext == ReconcileApply

SpecReconcile == ReconcileInit /\ [][ReconcileNext]_vars

(***************************************************************************)
(* The serialization harness: the literals of every row of one column over *)
(* Values and of every row of three columns over RowValues.                *)
(***************************************************************************)
SerializeInit ==
  /\ callArgs \in [columns : {<<"a">>}, row : [{"a"} -> Values]]
                  \cup [columns : {<<"a", "b", "c">>}, row : [{"a", "b", "c"} -> RowValues]]
  /\ callDone = FALSE
  /\ callResult = [literals |-> <<>>, tuple |-> <<>>]
  /\ RunIdle
  /\ SortIdle
  /\ ExportIdle

SerializeApply ==
  /\ ~callDone
  /\ callDone' = TRUE
  /\ callResult' =
       [literals |-> [k \in 1..Len(callArgs.columns) |->
                        serializeValue(callArgs.row[callArgs.columns[k]])],
        tuple |-> serializeRow(callArgs.row, callArgs.columns)]
  /\ UNCHANGED callArgs
  /\ UNCHANGED runVars
  /\ UNCHANGED sortVars
  /\ UNCHANGED exportVars

SerializeNext == SerializeApply

SpecSerialize == SerializeInit /\ [][SerializeNext]_vars

(***************************************************************************)
(* The loader harness: a run in csv mode over the one table "a", taken     *)
(* from the call of importData on an artifact of any number of rows up to  *)
(* MaxRows whose columns match the table's; the table holds nothing, or    *)
(* the rows of the artifact's first batches (an earlier run that failed),  *)
(* or all the rows of the artifact (an earlier run that completed).        *)
(***************************************************************************)
\* the offsets the batch loop of importData takes over n rows
BatchOffsets(n) == {k * BATCH_SIZE : k \in 0..((n - 1) \div BATCH_SIZE)}

\* the rows of the first k batches of an artifact of n rows
RowsOfBatches(n, k) == {<<i, BatchLen(n, i)>> : i \in {j \in BatchOffsets(n) : j < k * BATCH_SIZE}}

LoadInit ==
  /\ pc = "csvRead"
  /\ fileType = "csv"
  /\ tables = <<"a">>
  /\ edges = {}
  /\ sortedTables = <<"a">>
  /\ idx = 1
  /\ \E n \in 0..MaxRows :
       /\ cur = [NoCur EXCEPT !.table = "a", !.csv = "nonzero",
                              !.content = [kind |-> "data", cols |-> <<"id">>,
                                           rows |-> n, blank |-> FALSE],
                              !.pgColumns = <<"id">>, !.exportedColumns = <<"id">>]
       /\ \E k \in 0..Cardinality(BatchOffsets(n)) :
            destination = [t \in Tables |-> IF t = "a" THEN RowsOfBatches(n, k) ELSE {}]
  /\ tstate = [t \in Tables |-> IF t = "a" THEN "Importing" ELSE "Pending"]
  /\ inserts = <<>>
  /\ inflight = 0
  /\ error = NoRunError
  /\ exitCode = -1
  /\ handler = HandlerOff
  /\ pgClients = 1
  /\ mysqlConns = 1
  /\ SortIdle
  /\ CallIdle
  /\ ExportIdle

LoadNext ==
  \/ CsvReadDone
  \/ InsertDone
  \/ LoopBegin
  \/ PoolEnd

SpecLoad == LoadInit /\ [][LoadNext]_vars

(***************************************************************************)
(* The exporter: a run of exportDatabaseTables, for either value of        *)
(* IGNORE_TABLES and every list of ExportLists.  Every export settles (a   *)
(* query returns or fails) and node runs the callback of a settled         *)
(* promise: the weak fairness of ExportNext.                               *)
(***************************************************************************)
ExportInit ==
  /\ PoolInit
  /\ TableIdle
  /\ RunIdle
  /\ SortIdle
  /\ CallIdle

ExportNext ==
  \/ ExportConnected
  \/ ExportTablesListed
  \/ ExportSettled
  \/ ExportResolved
  \/ ExportPoolEnded

SpecExport == ExportInit /\ [][ExportNext]_vars

SpecExportFair == ExportInit /\ [][ExportNext]_vars /\ WF_vars(ExportNext)

(***************************************************************************)
(* The export of one table: exportTableData called for a table of every    *)
(* size of ExportRowCounts and every column list of ExportColumnLists.     *)
(***************************************************************************)
ExportTableInit ==
  /\ XtInit
  /\ ignoreEnv = <<>>
  /\ PoolIdle
  /\ RunIdle
  /\ SortIdle
  /\ CallIdle

ExportTableNext ==
  \/ XtConnected
  \/ XtColumnsDone
  \/ XtProbeDone
  \/ XtBatchDone
  \/ XtRecordsWritten

SpecExportTable == ExportTableInit /\ [][ExportTableNext]_vars

(***************************************************************************)
(* The script: a run of the exporter or a run of the importer, under       *)
(* either value of IGNORE_TABLES.                                          *)
(***************************************************************************)
ScriptInit ==
  \/ ExportInit
  \/ /\ RunInit
     /\ SortIdle
     /\ CallIdle
     /\ ignoreEnv \in IgnoreEnvs
     /\ PoolIdle
     /\ TableIdle

ScriptNext ==
  \/ ExportNext
  \/ Next

SpecScript == ScriptInit /\ [][ScriptNext]_vars

\* C1: on an acyclic foreign-key graph topologicalSort returns an order, and in
\* it every table stands strictly after every table it depends on: for every
\* edge (A depends on B) with A in the order, index(B) < index(A).
C1_DependenciesFirst ==
  (sortCalled /\ ~CycleReachable(EdgesOfRows(sortRows), sortTables)) =>
     /\ ~sortResult.threw
     /\ Range(sortTables) \subseteq Range(sortResult.sorted)
     /\ RespectsEdges(sortResult.sorted, EdgesOfRows(sortRows))

C1_Witness ==
  /\ sortCalled
  /\ ~sortResult.threw
  /\ Len(sortRows) = 2
  /\ Len(sortResult.sorted) = 3
  /\ sortTables = <<"a">>

\* C2: when the dependency graph reachable from the table list holds a cycle
\* (of any length, a self-reference included) topologicalSort throws, the
\* table it names lies on a cycle, and no order is returned.
C2_CycleThrows ==
  (sortCalled /\ CycleReachable(EdgesOfRows(sortRows), sortTables)) =>
     /\ sortResult.threw
     /\ sortResult.error \in Tables
     /\ OnCycle(EdgesOfRows(sortRows), sortResult.error)
     /\ sortResult.sorted = <<>>

C2_Witness ==
  /\ sortCalled
  /\ sortResult.threw
  /\ Cardinality(EdgesOfRows(sortRows)) = 3
  /\ \A t \in Tables : OnCycle(EdgesOfRows(sortRows), t)
  /\ \A t \in Tables : <<t, t>> \notin EdgesOfRows(sortRows)

(***************************************************************************)
(* Claims about the run.                                                   *)
(***************************************************************************)
InsertsInto(t) == {i \in 1..Len(inserts) : inserts[i].table = t}

PositionsOf(t) == {k \in 1..Len(sortedTables) : sortedTables[k] = t}

Exited(code) == pc = "exited" /\ exitCode = code

ColumnMismatch == {"MissingInDestination", "ExtraInDestination"}

\* C3: the tables are imported one at a time in the order of topologicalSort:
\* never more than one insert statement is in flight, the statements issued
\* follow the order of the sorted tables, and for every foreign-key edge
\* (A depends on B) every insert into B precedes every insert into A.
C3_SequentialInOrder ==
  /\ inflight \in {0, 1}
  /\ \A i, j \in 1..Len(inserts) : i < j =>
       \A ki \in PositionsOf(inserts[i].table), kj \in PositionsOf(inserts[j].table) :
          ki <= kj
  /\ \A i \in 1..Len(inserts) : PositionsOf(inserts[i].table) # {}
  /\ \A e \in edges :
       \A i \in InsertsInto(e[1]), j \in InsertsInto(e[2]) : j < i

C3_Witness ==
  /\ inflight = 1
  /\ \E e \in edges :
       /\ e[1] # e[2]
       /\ Cardinality(InsertsInto(e[2])) = 2
       /\ InsertsInto(e[1]) # {}

\* C4 (as amended), first part: when the foreign-key graph reachable from the tables to
\* import has a cycle, the run ends with exit code 1 and a cyclic-dependency
\* error before any table is validated and before any insert is issued.
C4_ReachableCycleAborts ==
  CycleReachable(edges, tables) =>
     /\ Exited(1)
     /\ error.kind = "CyclicDependency"
     /\ OnCycle(edges, error.table)
     /\ inserts = <<>>
     /\ \A t \in Tables : tstate[t] = "Pending"

\* C4 (as amended), the other direction: a cyclic-dependency error is raised
\* only for a cycle reachable from the tables to import.
C4_OnlyReachableCycles ==
  error.kind = "CyclicDependency" => CycleReachable(edges, tables)

\* C4 (as amended): a cycle reachable from the tables to import, and only
\* such a cycle, ends the run with exit code 1 before any table is validated
\* and before any insert statement is issued.
C4_CycleAborts == C4_ReachableCycleAborts /\ C4_OnlyReachableCycles

C4_Witness ==
  /\ Exited(1)
  /\ error.kind = "CyclicDependency"
  /\ Len(tables) = 2
  /\ \A t \in Tables : <<t, t>> \notin edges

\* C4 (as claimed): whenever the foreign-key graph has a cycle, no table is
\* validated, no insert is issued and the process does not exit with code 0.
C4_AnyCycleAborts ==
  (\E x \in Tables : OnCycle(edges, x)) =>
     /\ inserts = <<>>
     /\ \A t \in Tables : tstate[t] = "Pending"
     /\ ~Exited(0)

EmptyArtifact(c) ==
  \/ fileType = "json" /\ c.content.kind = "data" /\ c.content.rows = 0
  \/ fileType = "csv" /\ c.csv = "zero"

Decided(t) == t \in Tables /\ tstate[t] \in {"Skipped", "Done", "Failed"}

\* C6 (as claimed): a table whose row count is not zero and whose artifact is
\* empty ends the run with an InconsistentState error for that table (a failed
\* catalog query apart); it is not skipped and nothing is inserted into it.
C6_InconsistentStateAborts ==
  (cur.rowCount > 0 /\ EmptyArtifact(cur) /\ Decided(cur.table)) =>
     /\ Exited(1)
     /\ error.table = cur.table
     /\ error.kind \in {"InconsistentState", "CatalogError"}
     /\ InsertsInto(cur.table) = {}

NoArtifact(c) == ~existsSync(c.json) /\ ~existsSync(c.csv)

\* C7 (as amended): a table that holds rows and has no artifact at all
\* (neither <table>.json nor <table>.csv) is Skipped without an error and
\* without an insert, and the loop goes on; an InconsistentState error is
\* raised only for a table that holds rows and whose two artifacts both exist
\* and are zero-byte.
C7_MissingArtifactSkipped ==
  /\ (cur.rowCount > 0 /\ NoArtifact(cur)) =>
        /\ tstate[cur.table] = "Skipped"
        /\ pc = "loop"
        /\ error = NoRunError
        /\ InsertsInto(cur.table) = {}
  /\ error.kind = "InconsistentState" =>
        /\ error.table = cur.table
        /\ cur.rowCount > 0
        /\ cur.json = "zero"
        /\ cur.csv = "zero"

C7_Witness ==
  /\ cur.rowCount > 0
  /\ NoArtifact(cur)
  /\ tstate[cur.table] = "Skipped"
  /\ idx <= Len(sortedTables)

\* C7 (as claimed): a table that holds rows and has no artifact at all is
\* never skipped; once decided it is Failed with an InconsistentState error.
C7_MissingArtifactFails ==
  (cur.rowCount > 0 /\ NoArtifact(cur) /\ Decided(cur.table)) =>
     /\ tstate[cur.table] = "Failed"
     /\ error = [kind |-> "InconsistentState", table |-> cur.table]

\* the artifact of the selected type is [], zero-byte or missing
EmptyOrMissingArtifact(c) ==
  \/ selectedStat(c) \in {"missing", "zero"}
  \/ fileType = "json" /\ c.content.kind = "data" /\ c.content.rows = 0

\* C8 (as claimed): a table whose row count is 0 and whose artifact is [],
\* zero-byte or missing is Skipped once decided, without an error (a failed
\* catalog query apart) and without an insert.
C8_EmptySkipped ==
  (cur.rowCount = 0 /\ EmptyOrMissingArtifact(cur) /\ Decided(cur.table)) =>
     \/ /\ tstate[cur.table] = "Skipped"
        /\ error = NoRunError
        /\ InsertsInto(cur.table) = {}
     \/ error = [kind |-> "CatalogError", table |-> cur.table]

\* C9: every insert statement issued was issued for a table whose artifact's
\* column names and whose destination column names are the same set, compared
\* case-sensitively.
C9_InsertOnlyAfterMatch ==
  \A i \in 1..Len(inserts) :
     /\ Range(inserts[i].exported) = Range(inserts[i].columns)
     /\ inserts[i].exported # <<>>

C9_Witness ==
  \E i \in 1..Len(inserts) :
     /\ inserts[i].exported # inserts[i].columns
     /\ inserts[i].batch = 2

\* the artifact has been parsed and its columns discovered
Discovered(c) == c.content.kind = "data"

\* C10 (as amended): a table whose artifact's discovered column set is not
\* empty and differs from the destination's in either direction fails with a
\* column-mismatch error, the run exits with code 1 and nothing is inserted
\* into the table; a table in whose artifact no column is discovered is
\* Skipped without an error, whatever the destination's columns.
C10_MismatchFails ==
  /\ (Discovered(cur) /\ cur.exportedColumns # <<>>
        /\ Range(cur.exportedColumns) # Range(cur.pgColumns)) =>
        /\ tstate[cur.table] = "Failed"
        /\ Exited(1)
        /\ error.table = cur.table
        /\ error.kind \in ColumnMismatch
        /\ InsertsInto(cur.table) = {}
  /\ (Discovered(cur) /\ cur.exportedColumns = <<>>) =>
        /\ tstate[cur.table] = "Skipped"
        /\ error = NoRunError
        /\ InsertsInto(cur.table) = {}

C10_Witness ==
  /\ Discovered(cur)
  /\ error.kind = "ExtraInDestination"
  /\ missingInPg(cur.exportedColumns, cur.pgColumns) = <<>>
  /\ inserts # <<>>

\* C10 (as claimed): whenever the discovered column set and the destination's
\* differ in either direction the table fails with a column-mismatch error
\* and is never skipped.
C10_AnyDifferenceFails ==
  (Discovered(cur) /\ Range(cur.exportedColumns) # Range(cur.pgColumns)) =>
     /\ tstate[cur.table] = "Failed"
     /\ error.kind \in ColumnMismatch

\* C11: column reconciliation is symmetric and complete: for all destination
\* and source column lists, the computed MissingInDestination and
\* ExtraInDestination are both empty if and only if the two lists hold the same
\* set of names, compared case-sensitively; Missing holds the source names the
\* destination lacks and Extra the destination names the source lacks.
C11_SymmetricComplete ==
  callDone =>
    LET dst == Range(callArgs.pgColumns)
        src == Range(callArgs.exportedColumns)
    IN /\ (callResult.missingInPg = <<>> /\ callResult.extraInPg = <<>>) <=> dst = src
       /\ Range(callResult.missingInPg) = src \ dst
       /\ Range(callResult.extraInPg) = dst \ src

\* destination [id, Name] against source [id, name]: Missing = [name], Extra = [Name]
C11_Witness ==
  /\ callDone
  /\ callArgs.pgColumns = <<"id", "Name">>
  /\ callArgs.exportedColumns = <<"id", "name">>
  /\ callResult.missingInPg = <<"name">>
  /\ callResult.extraInPg = <<"Name">>

\* ceil(n / BATCH_SIZE)
BatchCount(n) == (n + BATCH_SIZE - 1) \div BATCH_SIZE

\* C12: for an artifact of N > 0 rows and batch size 1000 the loader issues
\* exactly ceil(N/1000) insert statements, every batch but the last holds 1000
\* rows, the last holds N - 1000*(ceil(N/1000)-1) rows, and the batches taken
\* in issue order are the artifact's rows in order: the first starts at the
\* first row, each next one where the one before ended, the last ends at row N.
C12_Batching ==
  LET n == cur.content.rows
      count == BatchCount(n)
  IN (cur.table # "" /\ n > 0) =>
       /\ Len(inserts) <= count
       /\ tstate[cur.table] = "Done" => Len(inserts) = count
       /\ \A k \in 1..Len(inserts) :
            /\ inserts[k].table = cur.table
            /\ inserts[k].size = (IF k < count THEN BATCH_SIZE ELSE n - BATCH_SIZE * (count - 1))
            /\ inserts[k].first = (IF k = 1 THEN 0 ELSE inserts[k - 1].first + inserts[k - 1].size)
            /\ k = count => inserts[k].first + inserts[k].size = n

\* 2500 rows give 3 inserts of 1000, 1000 and 500 rows
C12_Witness ==
  /\ cur.content.rows = 2500
  /\ tstate["a"] = "Done"
  /\ Len(inserts) = 3
  /\ inserts[1].size = 1000 /\ inserts[2].size = 1000 /\ inserts[3].size = 500

\* the statements issued for table t up to and including batch k
BatchesUpTo(t, k) == {i \in InsertsInto(t) : inserts[i].batch <= k}

QuotesBefore(s, n) == Cardinality({i \in 1..n : s[i] = "'"})

\* d is s with every single quote doubled: each character of s stands in d,
\* moved right by the number of quotes before it, and a quote is followed by
\* one more quote
EveryQuoteDoubled(s, d) ==
  /\ Len(d) = Len(s) + QuotesBefore(s, Len(s))
  /\ \A i \in 1..Len(s) :
        LET p == i + QuotesBefore(s, i - 1)
        IN d[p] = s[i] /\ (s[i] = "'" => d[p + 1] = "'")

\* lit is the text between single quotes
IsQuoted(lit, text) ==
  /\ Len(lit) = Len(text) + 2
  /\ lit[1] = "'" /\ lit[Len(lit)] = "'"
  /\ SubSeq(lit, 2, Len(lit) - 1) = text

\* a string whose trimmed text starts with { and ends with } and parses as JSON
JsonLooking(value) ==
  /\ value.type = "string"
  /\ \E i, j \in 1..Len(value.str) :
        /\ i < j /\ value.str[i] = "{" /\ value.str[j] = "}"
        /\ \A k \in 1..Len(value.str) : (k < i \/ k > j) => value.str[k] = " "
  /\ JSONparses(value.str)

\* C14: a value is serialized by the first case that applies: null or absent
\* gives NULL; an object gives its JSON text between quotes; a string that
\* trims to {...} and parses as JSON gives the string itself between quotes,
\* unchanged; anything else gives its string form between quotes with every
\* single quote doubled.  The literals of a row are joined by ", " between
\* parentheses, in the order of the columns.
C14_SerializationPriority ==
  callDone =>
    /\ \A k \in 1..Len(callArgs.columns) :
          LET value == callArgs.row[callArgs.columns[k]]
              lit == callResult.literals[k]
          IN IF value.type \in {"undefined", "null"} THEN lit = <<"N", "U", "L", "L">>
             ELSE IF value.type = "object" THEN IsQuoted(lit, JSONstringify(value))
             ELSE IF JsonLooking(value) THEN IsQuoted(lit, value.str)
             ELSE /\ Len(lit) >= 2 /\ lit[1] = "'" /\ lit[Len(lit)] = "'"
                  /\ EveryQuoteDoubled(toString(value), SubSeq(lit, 2, Len(lit) - 1))
    /\ callResult.tuple =
         <<"(">> \o JoinWith(callResult.literals, <<",", " ">>) \o <<")">>

\* the row {"a": null, "b": {"x":1}, "c": "O'Brien"} gives (NULL, '{"x":1}', 'O''Brien')
C14_Witness ==
  /\ callDone
  /\ callArgs.columns = <<"a", "b", "c">>
  /\ callArgs.row = [a |-> Null, b |-> Obj(<<Member(<<"x">>, Num(1))>>), c |-> OBrien]
  /\ callResult.tuple =
       <<"(", "N", "U", "L", "L", ",", " ",
         "'", "{", "\"", "x", "\"", ":", "1", "}", "'", ",", " ",
         "'", "O", "'", "'", "B", "r", "i", "e", "n", "'", ")">>

\* a string that only looks like JSON is escaped, one that is JSON is not
C14_WitnessJsonLooking ==
  /\ callDone
  /\ callArgs.columns = <<"a">>
  /\ callArgs.row.a = Str(<<"{", "'", "}">>)
  /\ callResult.literals[1] = <<"'", "{", "'", "'", "}", "'">>

\* the artifact read for the table is text that its parser rejects
MalformedArtifact(c) == c.content.kind = "malformed" \/ c.content.blank

\* C15 (as claimed): a table whose artifact is malformed JSON or CSV is
\* abandoned alone: the table does not fail the run, no row of it is inserted,
\* and the run does not end with an error for it.
C15_ParseErrorLenient ==
  (MalformedArtifact(cur) /\ Decided(cur.table)) =>
     /\ tstate[cur.table] # "Failed"
     /\ InsertsInto(cur.table) = {}
     /\ error = NoRunError

\* all the rows of the artifact being imported
ArtifactRows == RowsOfBatches(cur.content.rows, BatchCount(cur.content.rows))

\* C16: importing a table whose destination already holds exactly the
\* artifact's rows, under a unique key, leaves the destination's rows as they
\* are, and no statement fails on a row that is already there; a table that
\* was imported to the end holds exactly the artifact's rows, whether it held
\* none of them, some of them or all of them before: importing twice gives
\* what importing once gives.
C16_Idempotent ==
  /\ [](error.kind # "UniqueViolation")
  /\ []((tstate["a"] = "Done" /\ cur.table = "a") => destination["a"] = ArtifactRows)
  /\ [][destination["a"] = ArtifactRows => destination'["a"] = destination["a"]]_vars

\* the first of three statements is in flight for a table that already holds
\* all the rows of the artifact
C16_Witness ==
  /\ pc = "insert"
  /\ cur.content.rows = 2500
  /\ Len(inserts) = 1
  /\ destination["a"] = ArtifactRows

\* the table held all the rows, three statements were issued and completed
C16_WitnessDone ==
  /\ tstate["a"] = "Done"
  /\ Len(inserts) = 3
  /\ destination["a"] = ArtifactRows
  /\ error = NoRunError

\* main is inside the try block of validateAndImportSchemas
InLoop == pc \in {"loop", "count", "schema", "headers", "csvRead", "insert"}

\* the errors thrown inside the import loop
LoopErrors ==
  {"QueryError", "InconsistentState", "ParseError", "MissingInDestination",
   "ExtraInDestination", "InsertError", "UniqueViolation"}

\* the import loop has been left: it ran to its end, or an error left it
LoopLeft ==
  \/ pc = "poolEnd"
  \/ pc = "exited" /\ exitCode = 0
  \/ pc = "exited" /\ (error.kind \in LoopErrors
                          \/ (error.kind = "CatalogError" /\ error.table # ""))

\* C17: the two connections validateAndImportSchemas acquires are held while
\* the import loop runs, whatever tables it skips, and both are released
\* exactly once when the loop is left, on each way out: the end of the loop, a
\* validation failure, an inconsistent-state failure, a loader failure.  A
\* connection is never released twice.
C17_ReleasedOnce ==
  /\ pgClients >= 0 /\ mysqlConns >= 0
  /\ InLoop => (pgClients = 1 /\ mysqlConns = 1)
  /\ LoopLeft => (pgClients = 0 /\ mysqlConns = 0)

\* a table was skipped, a later one failed in the loader, the connections are released
C17_Witness ==
  /\ Exited(1)
  /\ error.kind = "InsertError"
  /\ \E t \in Tables : tstate[t] = "Skipped"
  /\ pgClients = 0 /\ mysqlConns = 0

\* every table of the run reached Done or Skipped
AllSettled ==
  /\ Len(sortedTables) > 0
  /\ \A t \in Range(sortedTables) : tstate[t] \in {"Done", "Skipped"}

\* the export directory is missing, or holds no artifact of the selected type
PreconditionUnmet == error.kind \in {"NoExportDir", "NoFiles"}

\* C18 (as claimed): the process exits with code 0 if and only if every table
\* reached Done or Skipped, and with another code whenever a table reached
\* Failed or a precondition is unmet.
C18_ExitCode ==
  pc = "exited" =>
    /\ exitCode = 0 <=> AllSettled
    /\ ((\E t \in Tables : tstate[t] = "Failed") \/ PreconditionUnmet) => exitCode # 0

\* C19 (as claimed): when SIGINT arrives while an insert statement is in
\* flight, the process does not exit before that statement has completed or
\* failed: no statement is in flight when the process exits; both connections
\* of the import loop have been released when it exits; and the statements
\* that follow the signal are bounded: no batch of a table is issued twice.
C19_Cancellation ==
  handler.at = "insert" =>
    /\ pc = "exited" => (inflight = 0 /\ pgClients = 0 /\ mysqlConns = 0)
    /\ inflight = 1 => pc = "insert"
    /\ \A i, j \in 1..Len(inserts) :
          (inserts[i].table = inserts[j].table /\ inserts[i].batch = inserts[j].batch) => i = j

\* the steps of a table's state machine; the loader that returns before its
\* first await (no file, no rows) is entered and left within one step
TableSteps ==
  {<<"Pending", "Validating">>, <<"Pending", "Skipped">>, <<"Pending", "Failed">>,
   <<"Validating", "Importing">>, <<"Validating", "Skipped">>, <<"Validating", "Failed">>,
   <<"Validating", "Done">>, <<"Importing", "Done">>, <<"Importing", "Failed">>}

\* C20: every table follows Pending -> Validating -> Importing -> Done with
\* early exits to Skipped or Failed only: a table enters Importing, and reaches
\* Done, only from Validating or after it; Done, Skipped and Failed are never
\* left; and when the run ends with code 0 every table of the order is Done or
\* Skipped.
C20_TableStateMachine ==
  /\ [][\A t \in Tables :
          \/ tstate'[t] = tstate[t]
          \/ <<tstate[t], tstate'[t]>> \in TableSteps]_vars
  /\ [](\A t \in Tables : tstate[t] \in TableStates)
  /\ [](Exited(0) => \A t \in Range(sortedTables) : tstate[t] \in {"Done", "Skipped"})

\* a run that ended with code 0, one table imported and one skipped
C20_Witness ==
  /\ Exited(0)
  /\ \E t \in Range(sortedTables) : tstate[t] = "Done" /\ InsertsInto(t) # {}
  /\ \E t \in Range(sortedTables) : tstate[t] = "Skipped"

(***************************************************************************)
(* Claims about the order among tables no edge relates.                    *)
(***************************************************************************)
\* the rows of the catalog query with two neighbouring rows exchanged (every
\* other order is a chain of such exchanges)
Exchange(rows, i) ==
  [k \in 1..Len(rows) |-> IF k = i THEN rows[i + 1] ELSE IF k = i + 1 THEN rows[i] ELSE rows[k]]

Exchanges(rows) == {Exchange(rows, i) : i \in 1..(Len(rows) - 1)}

FirstAt(rows, row) == CHOOSE i \in 1..Len(rows) : rows[i] = row /\ \A j \in 1..(i - 1) : rows[j] # row

\* the two row lists name, for every table, the same references in the same
\* order of first mention
SameReferenceOrder(rows1, rows2) ==
  /\ Range(rows1) = Range(rows2)
  /\ \A r, q \in Range(rows1) :
       r.table_name = q.table_name =>
         ((FirstAt(rows1, r) < FirstAt(rows1, q)) <=> (FirstAt(rows2, r) < FirstAt(rows2, q)))

PositionIn(order, t) == CHOOSE i \in 1..Len(order) : order[i] = t

MutuallyIndependent(E, s, t) == s # t /\ ~Path(E, s, t) /\ ~Path(E, t, s)

\* C21 (as claimed): topologicalSort returns the same sequence for the same
\* table list and the same edge set, in whatever order the edges are listed,
\* and two mutually independent tables of the list stand in the order of the
\* list.
C21_EdgeSetDeterministic ==
  sortCalled =>
     /\ \A rows \in Exchanges(sortRows) :
          topologicalSort(sortTables, getForeignKeyDependencies(rows)).sorted
            = sortResult.sorted
     /\ ~sortResult.threw =>
          \A i, j \in 1..Len(sortTables) :
             (i < j /\ MutuallyIndependent(EdgesOfRows(sortRows), sortTables[i], sortTables[j])) =>
                PositionIn(sortResult.sorted, sortTables[i])
                  < PositionIn(sortResult.sorted, sortTables[j])

\* C21 (amended): the result of topologicalSort is settled by the table list
\* and, for each table, the order in which the edge list first names its
\* references; and a table of the list stands before a table listed earlier
\* only when it is a dependency, direct or transitive, of that table or of a
\* table listed before it.
C21_DepthFirstOrder ==
  sortCalled =>
     /\ \A rows \in Exchanges(sortRows) :
          SameReferenceOrder(sortRows, rows) =>
            topologicalSort(sortTables, getForeignKeyDependencies(rows)) = sortResult
     /\ ~sortResult.threw =>
          \A i, j \in 1..Len(sortTables) :
             (/\ i < j
              /\ PositionIn(sortResult.sorted, sortTables[j])
                   < PositionIn(sortResult.sorted, sortTables[i])) =>
                \E k \in 1..i : Path(EdgesOfRows(sortRows), sortTables[k], sortTables[j])

\* three listed tables, the first depending on the last: the last is emitted
\* ahead of the second although no edge relates the two
C21_Witness ==
  /\ sortCalled
  /\ ~sortResult.threw
  /\ sortTables = <<"c", "a", "b">>
  /\ EdgesOfRows(sortRows) = {<<"c", "b">>}
  /\ sortResult.sorted = <<"b", "c", "a">>

\* one listed table with two references named in either order
C21_WitnessEdgeOrder ==
  /\ sortCalled
  /\ sortTables = <<"a">>
  /\ sortRows = <<[table_name |-> "a", foreign_table_name |-> "c"],
                  [table_name |-> "a", foreign_table_name |-> "b"]>>
  /\ sortResult.sorted = <<"c", "b", "a">>

C22_WitnessFkQuery ==
  /\ error = [kind |-> "CatalogError", table |-> ""]
  /\ pc = "exited"
  /\ sortedTables = <<>>
  /\ inserts = <<>>

(***************************************************************************)
(* Claims about the exporter.                                              *)
(***************************************************************************)
Running == {t \in ExportTables : exportState[t] = "running"}

Ignored(t) == includes(ignoreTables, t)

StartsOf(t) == Cardinality({i \in 1..Len(queue) : queue[i] = t})

\* C23: the exports under way, which activeCount counts, are never more than
\* concurrencyLimit (5) and never fewer than none, whatever exports settled
\* before, fulfilled or rejected, and in whatever order.
C23_ConcurrencyLimit ==
  /\ activeCount = Cardinality(Running)
  /\ 0 <= activeCount
  /\ activeCount <= concurrencyLimit

\* the limit is reached while a table that is not ignored waits in the list,
\* after an export was rejected
C23_Witness ==
  /\ activeCount = concurrencyLimit
  /\ \E t \in Range(exTables) : exportState[t] = "untouched" /\ ~Ignored(t)
  /\ \E t \in Range(exTables) : exportState[t] = "failed"

\* C29: exportTableData is started at most once for a table and never for an
\* ignored one; once the promise of processTablesWithConcurrencyLimit is
\* resolved every listed table that is not ignored was started exactly once
\* and its export has settled; and the promise is resolved in the end, for
\* every order in which the exports settle, all tables being ignored or not.
C29_AllStartedThenResolved ==
  /\ [](\A t \in ExportTables :
          /\ StartsOf(t) <= 1
          /\ StartsOf(t) = 1 => (~Ignored(t) /\ includes(exTables, t)))
  /\ [](resolved =>
          /\ activeCount = 0
          /\ index = Len(exTables)
          /\ \A t \in Range(exTables) :
               IF Ignored(t) THEN StartsOf(t) = 0
                             ELSE StartsOf(t) = 1 /\ Fulfilled(t))
  /\ [](exPc = "exporting" => <>resolved)

\* seven exports, more than the limit, one of them rejected, and the promise resolved
C29_Witness ==
  /\ resolved
  /\ Len(queue) = 7
  /\ \E t \in Range(exTables) : exportState[t] = "failed"
  /\ \E t \in Range(exTables) : exportState[t] = "skipped"

\* every listed table is ignored and the promise is resolved
C29_WitnessAllIgnored ==
  /\ resolved
  /\ Len(exTables) = 2
  /\ queue = <<>>

\* C30: for a source table without rows exportTableData, when it resolves,
\* has left a JSON file that holds exactly `[]` and a CSV file of zero bytes;
\* it writes the two files in one step, each once, and never writes again.
C30_EmptyExport ==
  /\ []((xt.pc = "settled" /\ xt.outcome = "resolved" /\ xt.rows = 0) =>
          /\ jsonFile = [exists |-> TRUE, text |-> <<"[", "]">>]
          /\ csvFile = [exists |-> TRUE, lines |-> <<>>])
  /\ [][(xt.rows = 0 /\ (csvFile' # csvFile \/ jsonFile' # jsonFile)) =>
          /\ csvFile = AbsentCsv
          /\ jsonFile = AbsentJson
          /\ csvFile' = [exists |-> TRUE, lines |-> <<>>]
          /\ jsonFile' = [exists |-> TRUE, text |-> <<"[", "]">>]
          /\ xt'.pc = "settled"]_vars

C30_Witness ==
  /\ xt.pc = "settled"
  /\ xt.outcome = "resolved"
  /\ xt.rows = 0
  /\ Len(xt.columnNames) = 2
  /\ csvFile.exists
  /\ jsonFile.exists

(***************************************************************************)
(* Claims about the exporter and the importer together.                    *)
(***************************************************************************)
\* the tables of the order that stand after the one the loop is at
AfterCurrent == {sortedTables[i] : i \in (idx + 1)..Len(sortedTables)}

C24_WitnessImport ==
  /\ pc = "exited"
  /\ error.table # ""
  /\ Len(sortedTables) = 2
  /\ error.table = sortedTables[1]
  /\ tstate[sortedTables[2]] = "Pending"

\* C25: a table of ignoreTables (the default "migrations" and the entries of
\* IGNORE_TABLES) is ignored by the exporter and by the importer:
\* exportTableData is never started for it and no insert statement is issued
\* for it.
C25_IgnoredEverywhere ==
  /\ \A t \in ExportTables :
       Ignored(t) => (StartsOf(t) = 0 /\ exportState[t] \in {"untouched", "skipped"})
  /\ \A i \in 1..Len(inserts) : ~Ignored(inserts[i].table)

(***************************************************************************)
(* Further claims about the run.                                           *)
(***************************************************************************)
\* importData has parsed the artifact of the current table to zero rows
ParsedToZeroRows == ~CsvReadRejects(cur.content) /\ cur.content.rows = 0

\* C26: when importData has parsed the artifact to zero rows (a CSV file with
\* its header line only) it returns in that step without an insert statement
\* and without an error: the table is Done, the process runs on and the loop
\* stands at the next table.
C26_ZeroRowsNoOp ==
  /\ [][(pc = "csvRead" /\ ParsedToZeroRows) =>
          /\ inserts' = inserts
          /\ inflight' = inflight
          /\ destination' = destination
          /\ error' = error
          /\ exitCode' = -1
          /\ pc' = "loop"
          /\ idx' = idx + 1
          /\ tstate'[cur.table] = "Done"]_vars
  /\ []((cur.table # "" /\ pc # "csvRead" /\ ParsedToZeroRows /\ cur.content.kind = "data") =>
          InsertsInto(cur.table) = {})

\* the first of two tables has a CSV file with a header line only: importData
\* has returned and the second table is next
C26_Witness ==
  /\ pc = "loop"
  /\ fileType = "csv"
  /\ cur.content.kind = "data"
  /\ Len(cur.content.cols) > 0
  /\ ParsedToZeroRows
  /\ tstate[cur.table] = "Done"
  /\ Len(sortedTables) = 2
  /\ idx = 2
  /\ inserts = <<>>
  /\ exitCode = -1

(***************************************************************************)
(* Claims about the dependency map.                                        *)
(***************************************************************************)
ReferencesOf(rows, t) == {e[2] : e \in {d \in EdgesOfRows(rows) : d[1] = t}}

\* C27: getForeignKeyDependencies maps exactly the tables that have an
\* outgoing edge, each to the tables it references, every one held once
\* however many rows name the pair; a table without outgoing edge has no entry
\* and topologicalSort takes it as a table without dependencies.
C27_DependencyMap ==
  LET m == getForeignKeyDependencies(sortRows)
  IN /\ DOMAIN m = {t \in Tables : ReferencesOf(sortRows, t) # {}}
     /\ \A t \in DOMAIN m :
          /\ Range(m[t]) = ReferencesOf(sortRows, t)
          /\ Len(m[t]) = Cardinality(ReferencesOf(sortRows, t))
     /\ \A t \in Tables \ DOMAIN m :
          /\ MapGetOrEmpty(m, t) = <<>>
          /\ topologicalSort(<<t>>, m) = [threw |-> FALSE, error |-> NoError, sorted |-> <<t>>]
          /\ (sortCalled /\ sortTables = <<t>>) => sortResult.sorted = <<t>>

\* three rows, two of them naming the same pair, and a table without an
\* outgoing edge sorted on its own
C27_Witness ==
  /\ sortCalled
  /\ Len(sortRows) = 3
  /\ Cardinality(EdgesOfRows(sortRows)) = 2
  /\ sortRows[1] = sortRows[3]
  /\ \E t \in Tables : sortTables = <<t>> /\ ReferencesOf(sortRows, t) = {}
                       /\ sortResult.sorted = <<t>>

(***************************************************************************)
(* Claims about the tables of a run taken one by one.                      *)
(***************************************************************************)
Settled(t) == tstate[t] \in {"Done", "Failed", "Skipped"}

\* C28: a table name stands at most once in the order the loop walks, a table
\* the loop has left is never taken up again and receives no further insert
\* statement, and no batch of an artifact's rows is submitted twice.
C28_ConsumedOnce ==
  /\ [](\A t \in Tables : Cardinality(PositionsOf(t)) <= 1)
  /\ [](\A i, j \in 1..Len(inserts) :
          (inserts[i].table = inserts[j].table /\ inserts[i].first = inserts[j].first) => i = j)
  /\ [][\A t \in Tables :
          Settled(t) => (tstate'[t] = tstate[t]
                         /\ {i \in 1..Len(inserts') : inserts'[i].table = t} = InsertsInto(t))]_vars

\* two tables, the second referencing the first (the sort meets the first
\* twice), both imported, one of them in two batches
C28_Witness ==
  /\ exitCode = 0
  /\ Len(tables) = 2
  /\ <<tables[2], tables[1]>> \in edges
  /\ \A t \in Range(tables) : tstate[t] = "Done" /\ InsertsInto(t) # {}
  /\ \E t \in Range(tables) : Cardinality(InsertsInto(t)) = 2

(***************************************************************************)
(* Claims about the tables of the order.                                   *)
(***************************************************************************)
NoRepetition(order) == \A i, j \in 1..Len(order) : i # j => order[i] # order[j]

\* C31 (as claimed): the order topologicalSort returns holds every table of
\* its list exactly once and no table that is not in the list.
C31_OrderIsList ==
  (sortCalled /\ ~sortResult.threw) =>
     /\ NoRepetition(sortResult.sorted)
     /\ Range(sortResult.sorted) = Range(sortTables)

\* C31 (amended): the order topologicalSort returns holds exactly the tables
\* of its list and the tables they depend on, directly or through other
\* tables, each exactly once.
C31_OrderIsReachable ==
  (sortCalled /\ ~sortResult.threw) =>
     /\ NoRepetition(sortResult.sorted)
     /\ Range(sortResult.sorted) = ReachableFrom(EdgesOfRows(sortRows), sortTables)

\* two listed tables, the second referencing a table that is not listed
C31_Witness ==
  /\ sortCalled
  /\ ~sortResult.threw
  /\ sortTables = <<"b", "a">>
  /\ EdgesOfRows(sortRows) = {<<"a", "c">>}
  /\ sortResult.sorted = <<"b", "c", "a">>


RECURSIVE QuotesPaired(_)
\* the text between the enclosing quotes of an SQL string literal ends the
\* literal nowhere: scanned from the left, each single quote is followed by a
\* second one, and the scan goes on after the pair
QuotesPaired(s) ==
  IF Len(s) = 0 THEN TRUE
  ELSE IF Head(s) # "'" THEN QuotesPaired(Tail(s))
  ELSE Len(s) >= 2 /\ s[2] = "'" /\ QuotesPaired(Tail(Tail(s)))

\* the text a value contributes to its literal: the JSON text of an object,
\* the string form of anything else
TextOf(value) == IF value.type = "object" THEN JSONstringify(value) ELSE toString(value)

\* C32 (as claimed): every literal placed in an insert statement is NULL or a
\* well-formed SQL string literal: between its enclosing quotes stands the
\* text of the value with every single quote doubled, whatever the kind of the
\* value (string, number, boolean, object, JSON-looking string).
C32_LiteralsWellFormed ==
  callDone =>
    \A k \in 1..Len(callArgs.columns) :
       LET value == callArgs.row[callArgs.columns[k]]
           lit == callResult.literals[k]
       IN \/ value.type \in {"undefined", "null"} /\ lit = NULL
          \/ /\ value.type \notin {"undefined", "null"}
             /\ Len(lit) >= 2 /\ lit[1] = "'" /\ lit[Len(lit)] = "'"
             /\ QuotesPaired(SubSeq(lit, 2, Len(lit) - 1))
             /\ EveryQuoteDoubled(TextOf(value), SubSeq(lit, 2, Len(lit) - 1))


\* the locals of the iteration, had the file of the other type the stat `stat`
WithOtherFile(c, stat) ==
  IF fileType = "json" THEN [c EXCEPT !.csv = stat] ELSE [c EXCEPT !.json = stat]

\* C33 (as claimed): the outcome for a table depends on the file of the
\* selected type, the row count and the catalogs only, not on the file of the
\* other type: whenever the checks before the schema query would settle the
\* table for some state of the other file (absent, zero-byte, or holding
\* data), the table has that outcome whatever the other file is; a table they
\* would skip is Skipped without an error and without an insert, and a table
\* they would reject is Failed (a failed row-count query apart).
C33_ModeIsolation ==
  (Decided(cur.table) /\ error.kind # "QueryError") =>
     \A stat \in FileStats :
        LET other == WithOtherFile(cur, stat)
        IN /\ checksBeforeSchema(other) = "Skipped" =>
                /\ tstate[cur.table] = "Skipped"
                /\ error.table # cur.table
                /\ InsertsInto(cur.table) = {}
           /\ checksBeforeSchema(other) = "InconsistentState" =>
                tstate[cur.table] = "Failed"


\* the run ended at the foreign-key query or at the sort of the tables
SortFailed ==
  \/ error = [kind |-> "CatalogError", table |-> ""]
  \/ error.kind = "CyclicDependency"

\* C34 (as claimed): whenever the importer has ended the process, every
\* connection it checked out of a pool has been released; in particular the
\* client main checks out for the foreign-key query has been released when
\* that query failed or the sort raised a cyclic-dependency error.
C34_ReleasedBeforeExit ==
  /\ pc = "exited" => (pgClients = 0 /\ mysqlConns = 0)
  /\ (pc = "exited" /\ SortFailed) => pgClients = 0

====
